---- MODULE Spec2Model ----
(***************************************************************************)
(* Model of the account resize protocol of the pinocchio SDK               *)
(* (sdk/src/lib.rs, impl Resize for AccountView), of the funded account    *)
(* creation helper of the system program client                            *)
(* (programs/system/src/lib.rs, create_account_with_minimum_balance_signed)*)
(* of the instruction builders of the token-2022 client                    *)
(* (programs/token-2022/src/instructions) and of the eager and lazy        *)
(* entrypoint parsers (sdk/src/entrypoint).                                *)
(***************************************************************************)
EXTENDS Integers, Naturals, Sequences, FiniteSets, TLC

(***************************************************************************)
(* Bounds of the model.                                                    *)
(***************************************************************************)
\* Largest data length an account has when the program is entered.
MaxOrigLen == 2
\* The growth limit of one instruction (10 KiB in the runtime), scaled down.
MAX_PERMITTED_DATA_INCREASE == 2
\* Largest number of shared borrows held at once.
MaxShared == 2
\* Lamport balances range over 0 .. MaxLamports.
MaxLamports == 2

\* Lengths a caller may ask for: every permitted length and two lengths beyond
\* the growth limit of the largest account.
MaxNewLen == MaxOrigLen + MAX_PERMITTED_DATA_INCREASE + 2
Lens == 0 .. MaxNewLen
\* A data byte is abstracted to zero (0) or non-zero (1).
Byte == {0, 1}
\* The memory modelled behind the data pointer: the data, the padding the
\* runtime reserves for growth, and whatever follows the record.
MemIdx == 0 .. (MaxNewLen - 1)
\* The byte pattern of the memory that follows the reserved region.
GuardByte == CHOOSE b \in Byte : b # 0

(***************************************************************************)
(* State.                                                                  *)
(*  account : the AccountView and the RuntimeAccount record it points to:  *)
(*            raw (the pointer held by the view), borrow_state, padding    *)
(*            (the recorded original data length), lamports, data_len,     *)
(*            owner, and data (the memory behind the data pointer).        *)
(*  last    : the last call on the account (resize, resize_unchecked,      *)
(*            try_borrow): its argument, its result, the code positions it *)
(*            went through and the account before it.                      *)
(*  prev    : the resize call right before `last`, when it got past the    *)
(*            borrow check.                                                *)
(*  pc, call, ret, cpi_log, payer_lamports : the position, the arguments,  *)
(*            the result and the CPIs issued by                            *)
(*            create_account_with_minimum_balance_signed, and the balance  *)
(*            of the payer.                                                *)
(*  invocation : the last call of an instruction builder of the token-2022 *)
(*            client: its arguments, its result, and what it handed to the *)
(*            CPI invocation layer.                                        *)
(*  entry   : the input buffer the host passed to the program, what the    *)
(*            eager parser made of it, and the cursor of the lazy parser   *)
(*            with what its calls returned.                                *)
(***************************************************************************)
VARIABLES account, last, prev, pc, call, ret, cpi_log, payer_lamports, invocation,
          entry

vars == <<account, last, prev, pc, call, ret, cpi_log, payer_lamports, invocation,
          entry>>

flowVars == <<pc, call, ret, cpi_log, payer_lamports, invocation, entry>>

\* The variables of the SDK part, which the instruction builders leave alone.
sdkVars == <<account, last, prev, pc, call, ret, cpi_log, payer_lamports, entry>>

\* The variables the entrypoint parsers leave alone.
programVars ==
    <<account, last, prev, pc, call, ret, cpi_log, payer_lamports, invocation>>

NOT_BORROWED == [mut |-> FALSE, shared |-> 0]

NoCall == [op |-> "none"]

NoInvocation == [builder |-> "none"]

NoEntry == [input |-> << >>]

saturating_sub(a, b) == IF a > b THEN a - b ELSE 0

data_len(acc) == acc.data_len

\* The data pointer is a fixed offset from the record the view points to.
data_ptr(acc) == <<acc.raw, "data">>

\* write_bytes that stops one byte short of the requested count.
write_bytes_short(data, from, count) ==
    [i \in DOMAIN data |-> IF i >= from /\ i < from + count - 1 THEN 0 ELSE data[i]]

\* core::ptr::write_bytes(dst.add(from), 0, count)
write_bytes(data, from, count) ==
    [i \in DOMAIN data |-> IF i >= from /\ i < from + count THEN 0 ELSE data[i]]

check_borrow_mut(acc) ==
    IF acc.borrow_state = NOT_BORROWED THEN "Ok" ELSE "AccountBorrowFailed"

check_borrow(acc) ==
    IF acc.borrow_state.mut \/ acc.borrow_state.shared >= MaxShared
    THEN "AccountBorrowFailed" ELSE "Ok"

(***************************************************************************)
(* Faulty variants of resize_unchecked, used to show that the properties   *)
(* below depend on the code.                                               *)
(***************************************************************************)
\* The shared tail of the variants: zero-fill from `fill_from` when growing,
\* then store the length.
ResizeTail(acc, new_len, fill_from, head) ==
    IF new_len > data_len(acc)
    THEN [result |-> "Ok",
          account |-> [acc EXCEPT
              !.data = write_bytes(acc.data, fill_from,
                                   saturating_sub(new_len, fill_from)),
              !.data_len = new_len],
          trace |-> head \o <<"write_bytes", "store_len">>]
    ELSE [result |-> "Ok",
          account |-> [acc EXCEPT !.data_len = new_len],
          trace |-> head \o <<"store_len">>]

\* The growth is measured against the current length, not the original one.
resize_unchecked_from_current(acc, new_len) ==
    IF new_len = data_len(acc)
    THEN [result |-> "Ok", account |-> acc, trace |-> <<"len_eq">>]
    ELSE IF saturating_sub(new_len, data_len(acc)) > MAX_PERMITTED_DATA_INCREASE
         THEN [result |-> "InvalidRealloc", account |-> acc,
               trace |-> <<"len_eq", "bound">>]
         ELSE ResizeTail(acc, new_len, data_len(acc), <<"len_eq", "bound">>)

\* The zero-fill starts at the original length, not at the current one.
resize_unchecked_fill_from_original(acc, new_len) ==
    IF new_len = data_len(acc)
    THEN [result |-> "Ok", account |-> acc, trace |-> <<"len_eq">>]
    ELSE IF saturating_sub(new_len, acc.padding) > MAX_PERMITTED_DATA_INCREASE
         THEN [result |-> "InvalidRealloc", account |-> acc,
               trace |-> <<"len_eq", "bound">>]
         ELSE ResizeTail(acc, new_len, acc.padding, <<"len_eq", "bound">>)

\* The growth limit is checked before the lengths are compared.
resize_unchecked_bound_first(acc, new_len) ==
    IF saturating_sub(new_len, acc.padding) > MAX_PERMITTED_DATA_INCREASE
    THEN [result |-> "InvalidRealloc", account |-> acc, trace |-> <<"bound">>]
    ELSE IF new_len = data_len(acc)
         THEN [result |-> "Ok", account |-> acc, trace |-> <<"bound", "len_eq">>]
         ELSE ResizeTail(acc, new_len, data_len(acc), <<"bound", "len_eq">>)

\* The growth limit itself is refused (>= instead of >).
resize_unchecked_inclusive(acc, new_len) ==
    IF new_len = data_len(acc)
    THEN [result |-> "Ok", account |-> acc, trace |-> <<"len_eq">>]
    ELSE IF saturating_sub(new_len, acc.padding) >= MAX_PERMITTED_DATA_INCREASE
         THEN [result |-> "InvalidRealloc", account |-> acc,
               trace |-> <<"len_eq", "bound">>]
         ELSE ResizeTail(acc, new_len, data_len(acc), <<"len_eq", "bound">>)

\* Growing moves the data to a new record.
resize_unchecked_realloc(acc, new_len) ==
    IF new_len = data_len(acc)
    THEN [result |-> "Ok", account |-> acc, trace |-> <<"len_eq">>]
    ELSE IF saturating_sub(new_len, acc.padding) > MAX_PERMITTED_DATA_INCREASE
         THEN [result |-> "InvalidRealloc", account |-> acc,
               trace |-> <<"len_eq", "bound">>]
         ELSE LET r == ResizeTail(acc, new_len, data_len(acc), <<"len_eq", "bound">>) IN
              IF new_len > data_len(acc)
              THEN [r EXCEPT !.account.raw = "acct_moved"]
              ELSE r

(***************************************************************************)
(* impl Resize for AccountView                                             *)
(***************************************************************************)
resize_unchecked(acc, new_len) ==
    IF new_len = data_len(acc)
    THEN [result |-> "Ok", account |-> acc, trace |-> <<"len_eq">>]
    ELSE LET original_data_len == acc.padding IN
         IF saturating_sub(new_len, original_data_len) > MAX_PERMITTED_DATA_INCREASE
         THEN [result |-> "InvalidRealloc", account |-> acc,
               trace |-> <<"len_eq", "bound">>]
         ELSE IF new_len > data_len(acc)
         THEN [result |-> "Ok",
               account |-> [acc EXCEPT
                   !.data = write_bytes(acc.data, data_len(acc),
                                        saturating_sub(new_len, data_len(acc))),
                   !.data_len = new_len],
               trace |-> <<"len_eq", "bound", "write_bytes", "store_len">>]
         ELSE [result |-> "Ok",
               account |-> [acc EXCEPT !.data_len = new_len],
               trace |-> <<"len_eq", "bound", "store_len">>]

\* resize without the borrow check.
resize_no_borrow_check(acc, new_len) ==
    LET r == resize_unchecked(acc, new_len) IN
    [r EXCEPT !.trace = <<"check_borrow_mut">> \o @]

resize(acc, new_len) ==
    IF check_borrow_mut(acc) # "Ok"
    THEN [result |-> check_borrow_mut(acc), account |-> acc,
          trace |-> <<"check_borrow_mut">>]
    ELSE LET r == resize_unchecked(acc, new_len) IN
         [r EXCEPT !.trace = <<"check_borrow_mut">> \o @]

(***************************************************************************)
(* Initial states: the account as the entrypoint hands it to the program.  *)
(* The current length equals the recorded original length, the data holds  *)
(* any bytes, the reserved padding is zeroed, nothing is borrowed.  An     *)
(* account without lamports does not exist yet: it has no data and the     *)
(* system program owns it.                                                 *)
(***************************************************************************)
EntryAccount(n, l, o, d) ==
    [raw |-> "acct", borrow_state |-> NOT_BORROWED, padding |-> n, lamports |-> l,
     data_len |-> n, owner |-> o,
     data |-> [i \in MemIdx |->
                  IF i < n THEN d[i]
                  ELSE IF i < n + MAX_PERMITTED_DATA_INCREASE THEN 0
                  ELSE GuardByte]]

IdleFlow ==
    /\ pc = "idle"
    /\ call = [space |-> 0, owner |-> "system", lamports |-> 0, entry_lamports |-> 0]
    /\ ret = "none"
    /\ cpi_log = <<>>
    /\ invocation = NoInvocation
    /\ entry = NoEntry

Init ==
    /\ account \in { EntryAccount(n, 1, "owner_a", d) :
                       n \in 0 .. MaxOrigLen, d \in [MemIdx -> Byte] }
    /\ last = NoCall
    /\ prev = NoCall
    /\ IdleFlow
    /\ payer_lamports = 0

Call(op, new_len, r) ==
    [op |-> op, new_len |-> new_len, result |-> r.result, trace |-> r.trace,
     pre |-> account]

\* account.resize(new_len)
Resize ==
    /\ pc = "idle"
    /\ \E new_len \in Lens :
        LET r == resize(account, new_len) IN
        /\ account' = r.account
        /\ last' = Call("resize", new_len, r)
    /\ prev' = IF last.op = "resize" /\ last.result # "AccountBorrowFailed"
               THEN last ELSE NoCall
    /\ UNCHANGED flowVars

\* unsafe { account.resize_unchecked(new_len) }, called as its safety
\* contract demands: with no borrow of the data outstanding.
ResizeUnchecked ==
    /\ pc = "idle"
    /\ account.borrow_state = NOT_BORROWED
    /\ \E new_len \in Lens :
        LET r == resize_unchecked(account, new_len) IN
        /\ account' = r.account
        /\ last' = Call("resize_unchecked", new_len, r)
    /\ prev' = NoCall
    /\ UNCHANGED flowVars

\* account.try_borrow(): a shared borrow of the data, a slice of data_len bytes.
TryBorrow ==
    /\ pc = "idle"
    /\ check_borrow(account) = "Ok"
    /\ account' = [account EXCEPT !.borrow_state.shared = @ + 1]
    /\ last' = [op |-> "try_borrow", result |-> "Ok",
                slice_len |-> data_len(account), pre |-> account]
    /\ prev' = IF last.op = "resize" THEN last ELSE NoCall
    /\ UNCHANGED flowVars

\* account.try_borrow_mut(): the exclusive borrow of the data.
TryBorrowMut ==
    /\ pc = "idle"
    /\ check_borrow_mut(account) = "Ok"
    /\ account' = [account EXCEPT !.borrow_state.mut = TRUE]
    /\ last' = NoCall
    /\ prev' = NoCall
    /\ UNCHANGED flowVars

\* A write through the exclusive borrow.
WriteData ==
    /\ pc = "idle"
    /\ account.borrow_state.mut
    /\ \E i \in MemIdx, b \in Byte :
        /\ i < data_len(account)
        /\ account' = [account EXCEPT !.data[i] = b]
    /\ last' = NoCall
    /\ prev' = NoCall
    /\ UNCHANGED flowVars

\* A borrow guard goes out of scope.
DropRef ==
    /\ pc = "idle"
    /\ account.borrow_state.shared > 0
    /\ account' = [account EXCEPT !.borrow_state.shared = @ - 1]
    /\ last' = NoCall
    /\ prev' = NoCall
    /\ UNCHANGED flowVars

DropRefMut ==
    /\ pc = "idle"
    /\ account.borrow_state.mut
    /\ account' = [account EXCEPT !.borrow_state.mut = FALSE]
    /\ last' = NoCall
    /\ prev' = NoCall
    /\ UNCHANGED flowVars

(***************************************************************************)
(* Cross-program invocation of the system program.                         *)
(***************************************************************************)
\* The instructions the helper builds.
CreateAccount(lamports, space, owner) ==
    [ix |-> "CreateAccount", from |-> "payer", to |-> "acct",
     lamports |-> lamports, space |-> space, owner |-> owner]

Transfer(lamports) ==
    [ix |-> "Transfer", from |-> "payer", to |-> "acct",
     lamports |-> lamports, space |-> 0, owner |-> "none"]

Assign(owner) ==
    [ix |-> "Assign", from |-> "none", to |-> "acct",
     lamports |-> 0, space |-> 0, owner |-> owner]

\* What the system program does with an instruction it accepts.
HostAccepts(ix, acc, payer) ==
    CASE ix.ix = "CreateAccount" ->
            /\ acc.lamports = 0
            /\ payer >= ix.lamports
            /\ ix.space <= acc.padding + MAX_PERMITTED_DATA_INCREASE
      [] ix.ix = "Transfer" ->
            /\ payer >= ix.lamports
            /\ acc.lamports + ix.lamports <= MaxLamports
      [] OTHER -> TRUE

HostEffect(ix, acc, payer) ==
    CASE ix.ix = "CreateAccount" ->
            [account |-> [acc EXCEPT !.lamports = ix.lamports, !.owner = ix.owner,
                                     !.data_len = ix.space],
             payer |-> payer - ix.lamports]
      [] ix.ix = "Transfer" ->
            [account |-> [acc EXCEPT !.lamports = @ + ix.lamports],
             payer |-> payer - ix.lamports]
      [] OTHER ->
            [account |-> [acc EXCEPT !.owner = ix.owner], payer |-> payer]

\* ix.invoke_signed(signers): the outcomes of the call.  The call is refused
\* while the data of the target, a writable account of all three
\* instructions, is borrowed; otherwise the host runs the system program,
\* which fails or succeeds.
invoke_signed(ix, acc, payer) ==
    IF check_borrow_mut(acc) # "Ok"
    THEN { [result |-> check_borrow_mut(acc), account |-> acc, payer |-> payer] }
    ELSE { [result |-> "HostRejected", account |-> acc, payer |-> payer] }
         \cup
         { [result |-> "Ok", account |-> HostEffect(ix, acc, payer).account,
            payer |-> HostEffect(ix, acc, payer).payer] :
               x \in IF HostAccepts(ix, acc, payer) THEN {1} ELSE {} }

\* The log entry of an issued CPI.
Issued(ix, out) ==
    [ix |-> ix.ix, from |-> ix.from, to |-> ix.to, lamports |-> ix.lamports,
     space |-> ix.space, owner |-> ix.owner, result |-> out.result]

(***************************************************************************)
(* create_account_with_minimum_balance_signed(account, space, owner,       *)
(*                                            payer, rent_sysvar, signers) *)
(***************************************************************************)
\* The account states the helper is called in: the entry state of an
\* account (its data bytes non-zero), with any balance and owner.
InitCreate ==
    /\ account \in { EntryAccount(n, l, o, [i \in MemIdx |-> GuardByte]) :
                       n \in 0 .. MaxOrigLen, l \in 0 .. MaxLamports,
                       o \in {"system", "owner_a"} }
    /\ account.lamports = 0 => (account.padding = 0 /\ account.owner = "system")
    /\ last = NoCall
    /\ prev = NoCall
    /\ IdleFlow
    /\ payer_lamports \in 0 .. MaxLamports

\* The call and the computation of the rent-exempt minimum: the rent lookup
\* or try_minimum_balance fails and the error is returned, or `lamports` is
\* the minimum balance for `space`.
RentStep ==
    /\ pc = "idle"
    /\ \E space \in Lens, owner \in {"owner_a", "owner_b"} :
        \/ /\ call' = [space |-> space, owner |-> owner, lamports |-> 0,
                       entry_lamports |-> account.lamports]
           /\ pc' = "done"
           /\ ret' = "RentUnavailable"
        \/ \E minimum_balance \in 0 .. MaxLamports :
           /\ call' = [space |-> space, owner |-> owner,
                       lamports |-> minimum_balance,
                       entry_lamports |-> account.lamports]
           /\ pc' = "branch"
           /\ ret' = ret
    /\ UNCHANGED <<invocation, entry, account, last, prev, cpi_log, payer_lamports>>

\* The zero-lamports branch falls through to the Assign CPI instead of
\* returning the result of CreateAccount.
CreateAccountStep_falls_through ==
    /\ pc = "branch"
    /\ account.lamports = 0
    /\ \E out \in invoke_signed(CreateAccount(call.lamports, call.space, call.owner),
                                account, payer_lamports) :
        /\ cpi_log' = Append(cpi_log,
               Issued(CreateAccount(call.lamports, call.space, call.owner), out))
        /\ account' = out.account
        /\ payer_lamports' = out.payer
        /\ IF out.result = "Ok"
           THEN pc' = "assign" /\ ret' = ret
           ELSE pc' = "done" /\ ret' = out.result
    /\ UNCHANGED <<invocation, entry, last, prev, call>>

\* account.lamports() == 0: create the account with one CPI and return its
\* result.
CreateAccountStep ==
    /\ pc = "branch"
    /\ account.lamports = 0
    /\ \E out \in invoke_signed(CreateAccount(call.lamports, call.space, call.owner),
                                account, payer_lamports) :
        /\ cpi_log' = Append(cpi_log,
               Issued(CreateAccount(call.lamports, call.space, call.owner), out))
        /\ account' = out.account
        /\ payer_lamports' = out.payer
        /\ ret' = out.result
    /\ pc' = "done"
    /\ UNCHANGED <<invocation, entry, last, prev, call>>

\* The shortfall by wrapping_sub in place of saturating_sub (on a balance one
\* byte wide).
required_lamports_wrapping == (call.lamports - account.lamports) % 256

required_lamports == saturating_sub(call.lamports, account.lamports)

\* The result of the Transfer CPI is dropped (no `?`).
TransferStep_ignores_error ==
    /\ pc = "branch"
    /\ account.lamports # 0
    /\ required_lamports > 0
    /\ \E out \in invoke_signed(Transfer(required_lamports), account, payer_lamports) :
        /\ cpi_log' = Append(cpi_log, Issued(Transfer(required_lamports), out))
        /\ account' = out.account
        /\ payer_lamports' = out.payer
    /\ pc' = "assign"
    /\ UNCHANGED <<invocation, entry, last, prev, call, ret>>

\* Transfer lamports from the payer if needed; an error is returned.
TransferStep ==
    /\ pc = "branch"
    /\ account.lamports # 0
    /\ required_lamports > 0
    /\ \E out \in invoke_signed(Transfer(required_lamports), account, payer_lamports) :
        /\ cpi_log' = Append(cpi_log, Issued(Transfer(required_lamports), out))
        /\ account' = out.account
        /\ payer_lamports' = out.payer
        /\ IF out.result = "Ok"
           THEN pc' = "assign" /\ ret' = ret
           ELSE pc' = "done" /\ ret' = out.result
    /\ UNCHANGED <<invocation, entry, last, prev, call>>

\* The Assign CPI is skipped when the account already has the owner.
AssignStep_skips_same_owner ==
    /\ \/ pc = "assign"
       \/ pc = "branch" /\ account.lamports # 0 /\ required_lamports = 0
    /\ IF account.owner = call.owner
       THEN /\ pc' = "resize"
            /\ UNCHANGED <<cpi_log, account, payer_lamports, ret>>
       ELSE \E out \in invoke_signed(Assign(call.owner), account, payer_lamports) :
            /\ cpi_log' = Append(cpi_log, Issued(Assign(call.owner), out))
            /\ account' = out.account
            /\ payer_lamports' = out.payer
            /\ IF out.result = "Ok"
               THEN pc' = "resize" /\ ret' = ret
               ELSE pc' = "done" /\ ret' = out.result
    /\ UNCHANGED <<invocation, entry, last, prev, call>>

\* The result of the Assign CPI is dropped (no `?`).
AssignStep_ignores_error ==
    /\ \/ pc = "assign"
       \/ pc = "branch" /\ account.lamports # 0 /\ required_lamports = 0
    /\ \E out \in invoke_signed(Assign(call.owner), account, payer_lamports) :
        /\ cpi_log' = Append(cpi_log, Issued(Assign(call.owner), out))
        /\ account' = out.account
        /\ payer_lamports' = out.payer
    /\ pc' = "resize"
    /\ UNCHANGED <<invocation, entry, last, prev, call, ret>>

\* The Assign CPI goes through invoke_signed_unchecked, which does not look
\* at the borrow state of the accounts.
AssignStep_unchecked ==
    /\ \/ pc = "assign"
       \/ pc = "branch" /\ account.lamports # 0 /\ required_lamports = 0
    /\ \E out \in invoke_signed(Assign(call.owner),
                                [account EXCEPT !.borrow_state = NOT_BORROWED],
                                payer_lamports) :
        /\ cpi_log' = Append(cpi_log, Issued(Assign(call.owner), out))
        /\ account' = [out.account EXCEPT !.borrow_state = account.borrow_state]
        /\ payer_lamports' = out.payer
        /\ IF out.result = "Ok"
           THEN pc' = "resize" /\ ret' = ret
           ELSE pc' = "done" /\ ret' = out.result
    /\ UNCHANGED <<invocation, entry, last, prev, call>>

\* Assign the account to the owner; an error is returned.
AssignStep ==
    /\ \/ pc = "assign"
       \/ pc = "branch" /\ account.lamports # 0 /\ required_lamports = 0
    /\ \E out \in invoke_signed(Assign(call.owner), account, payer_lamports) :
        /\ cpi_log' = Append(cpi_log, Issued(Assign(call.owner), out))
        /\ account' = out.account
        /\ payer_lamports' = out.payer
        /\ IF out.result = "Ok"
           THEN pc' = "resize" /\ ret' = ret
           ELSE pc' = "done" /\ ret' = out.result
    /\ UNCHANGED <<invocation, entry, last, prev, call>>

\* unsafe { account.resize_unchecked(space) }, whose result is returned.
ResizeStep ==
    /\ pc = "resize"
    /\ LET r == resize_unchecked(account, call.space) IN
        /\ account' = r.account
        /\ last' = Call("resize_unchecked", call.space, r)
        /\ ret' = r.result
    /\ pc' = "done"
    /\ UNCHANGED <<invocation, entry, prev, call, cpi_log, payer_lamports>>

Next ==
    \/ Resize
    \/ ResizeUnchecked
    \/ TryBorrow
    \/ TryBorrowMut
    \/ WriteData
    \/ DropRef
    \/ DropRefMut

Spec == Init /\ [][Next]_vars

NextCreate ==
    \/ TryBorrow
    \/ TryBorrowMut
    \/ RentStep
    \/ CreateAccountStep
    \/ TransferStep
    \/ AssignStep
    \/ ResizeStep

SpecCreate == InitCreate /\ [][NextCreate]_vars

(***************************************************************************)
(* The instruction builders of the token-2022 client                       *)
(* (programs/token-2022/src/instructions).  Every builder fills fixed      *)
(* stack arrays of uninitialized slots, for the Instruction Accounts, for  *)
(* the Account View references and for the payload, and hands a prefix of  *)
(* each to the CPI invocation layer.  A slot is a record `written`,        *)
(* `value`: a slot nobody wrote holds whatever the stack held.             *)
(***************************************************************************)
\* The cap on multisig signer accounts (11 in the program), scaled down.
MAX_MULTISIG_SIGNERS == 2
\* The cap on the accounts of one CPI (64 in the program), scaled down.
MAX_STATIC_CPI_ACCOUNTS == 6
\* The capacity of the payload buffer of Reallocate.
REALLOCATE_DATA_CAPACITY == 50
\* size_of::<Address>()
ADDRESS_BYTES == 32

min(a, b) == IF a < b THEN a ELSE b

\* The sequences over S of a length up to n.
SeqsUpTo(S, n) == UNION { [1 .. k -> S] : k \in 0 .. n }

\* The accounts a caller passes as multisig signers and as fee sources.
SignerAccounts == {"signer_a", "signer_b"}
SourceAccounts == {"source_a", "source_b"}
\* Signer lists: every length the capacity check accepts and one beyond it.
SignerLists == SeqsUpTo(SignerAccounts, MAX_MULTISIG_SIGNERS + 1)
\* Source lists: up to one more source than fits beside a full signer list.
SourceLists == SeqsUpTo(SourceAccounts, MAX_STATIC_CPI_ACCOUNTS - 3 - MAX_MULTISIG_SIGNERS + 1)
\* The number of PDA signer seed sets passed as the `signers` argument.
PdaSignerCounts == 0 .. (MAX_MULTISIG_SIGNERS + 1)
\* Optional addresses.
OptionalAddresses == {"None", "address_a", "address_b"}
\* Samples of the u64, i64 and f64 arguments (the latter by its bit pattern),
\* of the u16 basis points and of the u8 decimals.
U64Values == {0, 258}
U16Values == {1, 513}
U8Values == {0, 9}

\* The addresses of the model.
AddressNames == <<"mint", "account", "source", "destination", "authority", "owner",
                  "payer", "system_program", "signer_a", "signer_b", "source_a",
                  "source_b", "address_a", "address_b", "stack">>

\* address.as_ref(): the bytes of an address.
as_ref(address) ==
    LET k == CHOOSE k \in 1 .. Len(AddressNames) : AddressNames[k] = address
    IN [i \in 1 .. ADDRESS_BYTES |-> (16 * k + i) % 256]

\* &[0; 32]
zeros(n) == [i \in 1 .. n |-> 0]

\* value.to_le_bytes() of an n-byte integer.
RECURSIVE to_le_bytes(_, _)
to_le_bytes(value, n) ==
    IF n = 0 THEN << >> ELSE <<value % 256>> \o to_le_bytes(value \div 256, n - 1)

\* `value as u8`
as_u8(value) == value % 256

\* ExtensionDiscriminator as u8.  PermanentDelegate, MetadataPointer,
\* GroupMemberPointer and ScaledUiAmount are the values of the token-2022
\* interface.
ExtensionDiscriminator(extension) ==
    CASE extension = "TransferFee" -> 26
      [] extension = "DefaultAccountState" -> 28
      [] extension = "MemoTransfer" -> 30
      [] extension = "PermanentDelegate" -> 35
      [] extension = "TransferHook" -> 36
      [] extension = "MetadataPointer" -> 39
      [] extension = "GroupMemberPointer" -> 41
      [] extension = "ScaledUiAmount" -> 43

\* InstructionAccount::new and its shorthands.
InstructionAccount(address, is_writable, is_signer) ==
    [address |-> address, is_writable |-> is_writable, is_signer |-> is_signer]

readonly(address) == InstructionAccount(address, FALSE, FALSE)

writable(address) == InstructionAccount(address, TRUE, FALSE)

readonly_signer(address) == InstructionAccount(address, FALSE, TRUE)

writable_signer(address) == InstructionAccount(address, TRUE, TRUE)

\* What uninitialized stack memory may hold: an Instruction Account, an
\* Account View reference, a byte.  One pattern fills the slots of a call:
\* the leftovers of an earlier call, which may be an account of this one, or
\* anything else.
Garbage ==
    { [account |-> readonly_signer("signer_a"), view |-> "signer_a", byte |-> 0],
      [account |-> writable("stack"), view |-> "stack", byte |-> 255],
      [account |-> writable_signer("stack"), view |-> "signer_b", byte |-> 1] }

\* [MaybeUninit::uninit(); n]
uninit_array(n, garbage) == [i \in 0 .. (n - 1) |-> [written |-> FALSE, value |-> garbage]]

\* buffer[i].write(value), i within the buffer.
write(buffer, i, value) == [buffer EXCEPT ![i] = [written |-> TRUE, value |-> value]]

\* for (slot, item) in buffer[from..].iter_mut().zip(items.iter()) { slot.write(item) }
write_zip(buffer, from, items) ==
    [i \in DOMAIN buffer |->
        IF i >= from /\ i - from < Len(items)
        THEN [written |-> TRUE, value |-> items[i - from + 1]]
        ELSE buffer[i]]

\* write_bytes(&mut buffer[lo..hi], source) of the token-2022 client: copies
\* as many bytes as fit in the shorter of the two slices.
write_bytes_into(buffer, lo, hi, source) ==
    LET len == min(hi - lo, Len(source)) IN
    [i \in DOMAIN buffer |->
        IF i >= lo /\ i < lo + len
        THEN [written |-> TRUE, value |-> source[i - lo + 1]]
        ELSE buffer[i]]

\* slice::from_raw_parts(buffer.as_ptr(), len): the first len slots read as
\* initialized; a slot past the end of the array holds what follows it.
from_raw_parts(buffer, len, garbage) ==
    [i \in 1 .. len |->
        IF (i - 1) \in DOMAIN buffer THEN buffer[i - 1]
        ELSE [written |-> FALSE, value |-> garbage]]

\* A slice literal &[a, b, ..]: every element is written.
slice(items) == [i \in 1 .. Len(items) |-> [written |-> TRUE, value |-> items[i]]]

\* The values and the written flags of a handed-over slice.
Values(handed) == [i \in 1 .. Len(handed) |-> handed[i].value]

AllWritten(handed) == \A i \in 1 .. Len(handed) : handed[i].written

\* What a builder returns without reaching the invocation layer, and what it
\* hands over to it.  `trace` lists the code positions it went through.
Refused(error, trace) ==
    [result |-> error, handed |-> FALSE, trace |-> trace, capacity |-> 0,
     accounts |-> << >>, views |-> << >>, data |-> << >>]

HandOver(capacity, accounts, views, data, trace) ==
    [result |-> "Ok", handed |-> TRUE, trace |-> trace, capacity |-> capacity,
     accounts |-> accounts, views |-> views, data |-> data]

\* The Instruction Account array of a multisig-capable builder: `capacity`
\* uninitialized slots; the fixed accounts are written from slot 0, the
\* authority (never writable, signer when there are no multisig signers)
\* after them, and the multisig signers, as read-only signers, after it.
instruction_accounts(capacity, fixed, authority, multisig_signers, garbage) ==
    LET with_fixed == write_zip(uninit_array(capacity, garbage.account), 0, fixed)
        with_authority ==
            write(with_fixed, Len(fixed),
                  InstructionAccount(authority, FALSE, multisig_signers = << >>))
    IN write_zip(with_authority, Len(fixed) + 1,
                 [i \in 1 .. Len(multisig_signers) |-> readonly_signer(multisig_signers[i])])

\* The parallel array of Account View references.
account_views(capacity, fixed, authority, multisig_signers, garbage) ==
    LET with_fixed == write_zip(uninit_array(capacity, garbage.view), 0, fixed)
        with_authority == write(with_fixed, Len(fixed), authority)
    IN write_zip(with_authority, Len(fixed) + 1, multisig_signers)

\* invoke_signed_with_bounds::<N>(instruction, account_views, signers): more
\* than N accounts is an invalid argument; otherwise the host runs the target
\* program, which fails or succeeds.
invoke_signed_with_bounds(N, accounts, data, views, signers) ==
    IF Len(views) > N
    THEN { [result |-> "InvalidArgument", issued |-> FALSE] }
    ELSE { [result |-> r, issued |-> TRUE] : r \in {"Ok", "HostRejected"} }

\* invoke(instruction, account_views)
invoke(accounts, data, views) ==
    { [result |-> r, issued |-> TRUE] : r \in {"Ok", "HostRejected"} }

\* The positions of a builder that passes its capacity check.
BuilderTrace == <<"capacity_check", "instruction_accounts", "accounts",
                  "instruction_data", "invoke">>

\* default_account_state::Update::invoke_signed, without the capacity check.
DefaultAccountState_Update_unchecked(self, signers, garbage) ==
    LET expected_accounts == 2 + Len(self.multisig_signers)
        capacity == 2 + MAX_MULTISIG_SIGNERS
    IN HandOver(capacity,
           from_raw_parts(instruction_accounts(capacity, <<writable(self.mint)>>,
                              self.freeze_authority, self.multisig_signers, garbage),
                          expected_accounts, garbage.account),
           from_raw_parts(account_views(capacity, <<self.mint>>,
                              self.freeze_authority, self.multisig_signers, garbage),
                          expected_accounts, garbage.view),
           slice(<<ExtensionDiscriminator("DefaultAccountState"), 1, as_u8(self.state)>>),
           BuilderTrace)

\* default_account_state::Update::invoke_signed
DefaultAccountState_Update_invoke_signed(self, signers, garbage) ==
    IF Len(self.multisig_signers) > MAX_MULTISIG_SIGNERS
    THEN Refused("InvalidArgument", <<"capacity_check">>)
    ELSE LET expected_accounts == 2 + Len(self.multisig_signers)
             capacity == 2 + MAX_MULTISIG_SIGNERS
         IN HandOver(capacity,
                from_raw_parts(instruction_accounts(capacity, <<writable(self.mint)>>,
                                   self.freeze_authority, self.multisig_signers, garbage),
                               expected_accounts, garbage.account),
                from_raw_parts(account_views(capacity, <<self.mint>>,
                                   self.freeze_authority, self.multisig_signers, garbage),
                               expected_accounts, garbage.view),
                slice(<<ExtensionDiscriminator("DefaultAccountState"), 1, as_u8(self.state)>>),
                BuilderTrace)

\* The 34-byte payload of the pointer and hook updates: the two
\* discriminators, then the address or 32 zero bytes.
address_payload(extension, discriminator, address, garbage) ==
    LET d0 == uninit_array(34, garbage.byte)
        d1 == write(d0, 0, ExtensionDiscriminator(extension))
        d2 == write(d1, 1, discriminator)
    IN write_bytes_into(d2, 2, 34,
           IF address # "None" THEN as_ref(address) ELSE zeros(32))

\* transfer_hook::UpdateTransferHook::invoke_signed
UpdateTransferHook_invoke_signed(self, signers, garbage) ==
    IF Len(self.multisig_signers) > MAX_MULTISIG_SIGNERS
    THEN Refused("InvalidArgument", <<"capacity_check">>)
    ELSE LET expected_accounts == 2 + Len(self.multisig_signers)
             capacity == 2 + MAX_MULTISIG_SIGNERS
             instruction_data ==
                 address_payload("TransferHook", 1, self.transfer_hook_program, garbage)
         IN HandOver(capacity,
                from_raw_parts(instruction_accounts(capacity, <<writable(self.mint)>>,
                                   self.authority, self.multisig_signers, garbage),
                               expected_accounts, garbage.account),
                from_raw_parts(account_views(capacity, <<self.mint>>,
                                   self.authority, self.multisig_signers, garbage),
                               expected_accounts, garbage.view),
                from_raw_parts(instruction_data, 34, garbage.byte),
                BuilderTrace)

\* metadata_pointer::Update::invoke_signed
MetadataPointer_Update_invoke_signed(self, signers, garbage) ==
    IF Len(self.multisig_signers) > MAX_MULTISIG_SIGNERS
    THEN Refused("InvalidArgument", <<"capacity_check">>)
    ELSE LET expected_accounts == 2 + Len(self.multisig_signers)
             capacity == 2 + MAX_MULTISIG_SIGNERS
             instruction_data ==
                 address_payload("MetadataPointer", 1, self.metadata_address, garbage)
         IN HandOver(capacity,
                from_raw_parts(instruction_accounts(capacity, <<writable(self.mint)>>,
                                   self.authority, self.multisig_signers, garbage),
                               expected_accounts, garbage.account),
                from_raw_parts(account_views(capacity, <<self.mint>>,
                                   self.authority, self.multisig_signers, garbage),
                               expected_accounts, garbage.view),
                from_raw_parts(instruction_data, 34, garbage.byte),
                BuilderTrace)

\* group_member_pointer::Update::invoke_signed
GroupMemberPointer_Update_invoke_signed(self, signers, garbage) ==
    IF Len(self.multisig_signers) > MAX_MULTISIG_SIGNERS
    THEN Refused("InvalidArgument", <<"capacity_check">>)
    ELSE LET expected_accounts == 2 + Len(self.multisig_signers)
             capacity == 2 + MAX_MULTISIG_SIGNERS
             instruction_data ==
                 address_payload("GroupMemberPointer", 1, self.member_address, garbage)
         IN HandOver(capacity,
                from_raw_parts(instruction_accounts(capacity, <<writable(self.mint)>>,
                                   self.authority, self.multisig_signers, garbage),
                               expected_accounts, garbage.account),
                from_raw_parts(account_views(capacity, <<self.mint>>,
                                   self.authority, self.multisig_signers, garbage),
                               expected_accounts, garbage.view),
                from_raw_parts(instruction_data, 34, garbage.byte),
                BuilderTrace)

\* memo_transfer::Enable::invoke_signed
Enable_invoke_signed(self, signers, garbage) ==
    IF Len(self.multisig_signers) > MAX_MULTISIG_SIGNERS
    THEN Refused("InvalidArgument", <<"capacity_check">>)
    ELSE LET expected_accounts == 2 + Len(self.multisig_signers)
             capacity == 2 + MAX_MULTISIG_SIGNERS
         IN HandOver(capacity,
                from_raw_parts(instruction_accounts(capacity, <<writable(self.account)>>,
                                   self.authority, self.multisig_signers, garbage),
                               expected_accounts, garbage.account),
                from_raw_parts(account_views(capacity, <<self.account>>,
                                   self.authority, self.multisig_signers, garbage),
                               expected_accounts, garbage.view),
                slice(<<ExtensionDiscriminator("MemoTransfer"), 0>>),
                BuilderTrace)

\* scaled_ui_amount::UpdateMultiplier::invoke_signed
UpdateMultiplier_invoke_signed(self, signers, garbage) ==
    IF Len(self.multisig_signers) > MAX_MULTISIG_SIGNERS
    THEN Refused("InvalidArgument", <<"capacity_check">>)
    ELSE LET expected_accounts == 2 + Len(self.multisig_signers)
             capacity == 2 + MAX_MULTISIG_SIGNERS
             d0 == uninit_array(18, garbage.byte)
             d1 == write(d0, 0, ExtensionDiscriminator("ScaledUiAmount"))
             d2 == write(d1, 1, 1)
             d3 == write_bytes_into(d2, 2, 10, to_le_bytes(self.multiplier, 8))
             instruction_data ==
                 write_bytes_into(d3, 10, 18, to_le_bytes(self.effective_timestamp, 8))
         IN HandOver(capacity,
                from_raw_parts(instruction_accounts(capacity, <<writable(self.mint)>>,
                                   self.authority, self.multisig_signers, garbage),
                               expected_accounts, garbage.account),
                from_raw_parts(account_views(capacity, <<self.mint>>,
                                   self.authority, self.multisig_signers, garbage),
                               expected_accounts, garbage.view),
                from_raw_parts(instruction_data, 18, garbage.byte),
                BuilderTrace)

\* TransferCheckedWithFee::invoke_signed writing the fee before the decimals.
TransferCheckedWithFee_fee_first(self, signers, garbage) ==
    IF Len(self.signers) > MAX_MULTISIG_SIGNERS
    THEN Refused("InvalidArgument", <<"capacity_check">>)
    ELSE LET capacity == 4 + MAX_MULTISIG_SIGNERS
             d0 == uninit_array(19, garbage.byte)
             d1 == write_bytes_into(d0, 0, 2, <<ExtensionDiscriminator("TransferFee"), 1>>)
             d2 == write_bytes_into(d1, 2, 10, to_le_bytes(self.amount, 8))
             d3 == write(d2, 18, self.decimals)
             instruction_data == write_bytes_into(d3, 10, 18, to_le_bytes(self.fee, 8))
             expected_accounts == 4 + signers
         IN HandOver(capacity,
                from_raw_parts(instruction_accounts(capacity,
                                   <<writable(self.source), readonly(self.mint),
                                     writable(self.destination)>>,
                                   self.authority, self.signers, garbage),
                               expected_accounts, garbage.account),
                from_raw_parts(account_views(capacity,
                                   <<self.source, self.mint, self.destination>>,
                                   self.authority, self.signers, garbage),
                               expected_accounts, garbage.view),
                from_raw_parts(instruction_data, 19, garbage.byte),
                <<"capacity_check", "instruction_accounts", "instruction_data",
                  "accounts", "invoke">>)

\* transfer_fee::TransferCheckedWithFee::invoke_signed.  The number of
\* accounts handed over is computed from `signers`, the PDA signer seeds.
TransferCheckedWithFee_invoke_signed(self, signers, garbage) ==
    IF Len(self.signers) > MAX_MULTISIG_SIGNERS
    THEN Refused("InvalidArgument", <<"capacity_check">>)
    ELSE LET capacity == 4 + MAX_MULTISIG_SIGNERS
             d0 == uninit_array(19, garbage.byte)
             d1 == write_bytes_into(d0, 0, 2, <<ExtensionDiscriminator("TransferFee"), 1>>)
             d2 == write_bytes_into(d1, 2, 10, to_le_bytes(self.amount, 8))
             d3 == write(d2, 10, self.decimals)
             instruction_data == write_bytes_into(d3, 11, 19, to_le_bytes(self.fee, 8))
             expected_accounts == 4 + signers
         IN HandOver(capacity,
                from_raw_parts(instruction_accounts(capacity,
                                   <<writable(self.source), readonly(self.mint),
                                     writable(self.destination)>>,
                                   self.authority, self.signers, garbage),
                               expected_accounts, garbage.account),
                from_raw_parts(account_views(capacity,
                                   <<self.source, self.mint, self.destination>>,
                                   self.authority, self.signers, garbage),
                               expected_accounts, garbage.view),
                from_raw_parts(instruction_data, 19, garbage.byte),
                <<"capacity_check", "instruction_accounts", "instruction_data",
                  "accounts", "invoke">>)

\* transfer_fee::SetTransferFee::invoke_signed.  The payload is the two
\* discriminators.
SetTransferFee_invoke_signed(self, signers, garbage) ==
    IF Len(self.signers) > MAX_MULTISIG_SIGNERS
    THEN Refused("InvalidArgument", <<"capacity_check">>)
    ELSE LET capacity == 2 + MAX_MULTISIG_SIGNERS
             expected_accounts == 2 + Len(self.signers)
         IN HandOver(capacity,
                from_raw_parts(instruction_accounts(capacity, <<writable(self.mint)>>,
                                   self.authority, self.signers, garbage),
                               expected_accounts, garbage.account),
                from_raw_parts(account_views(capacity, <<self.mint>>,
                                   self.authority, self.signers, garbage),
                               expected_accounts, garbage.view),
                slice(<<ExtensionDiscriminator("TransferFee"), 5>>),
                BuilderTrace)

\* transfer_fee::InitializeTransferFeeConfig::invoke.  Every field is written
\* at a fixed offset of the 78-byte buffer; data_length (data_len in the
\* code) counts the optional addresses that are present.
InitializeTransferFeeConfig_invoke(self, garbage) ==
    LET d0 == uninit_array(78, garbage.byte)
        d1 == write_bytes_into(d0, 0, 2, <<ExtensionDiscriminator("TransferFee"), 0>>)
        d2 == IF self.transfer_fee_config_authority # "None"
              THEN write_bytes_into(write(d1, 2, 1), 3, 35,
                                    as_ref(self.transfer_fee_config_authority))
              ELSE write(d1, 2, 0)
        d3 == IF self.withdraw_withheld_authority # "None"
              THEN write_bytes_into(write(d2, 35, 1), 36, 68,
                                    as_ref(self.withdraw_withheld_authority))
              ELSE write(d2, 35, 0)
        d4 == write_bytes_into(d3, 68, 70, to_le_bytes(self.transfer_fee_basis_points, 2))
        instruction_data == write_bytes_into(d4, 70, 78, to_le_bytes(self.maximum_fee, 8))
        data_length ==
            2 + 2 + 8 + 2
            + (IF self.transfer_fee_config_authority # "None" THEN ADDRESS_BYTES ELSE 0)
            + (IF self.withdraw_withheld_authority # "None" THEN ADDRESS_BYTES ELSE 0)
    IN HandOver(1, slice(<<writable(self.mint)>>), slice(<<self.mint>>),
                from_raw_parts(instruction_data, data_length, garbage.byte),
                <<"instruction_data", "invoke">>)

\* transfer_fee::WithdrawWithheldTokensFromMint::invoke_signed
WithdrawWithheldTokensFromMint_invoke_signed(self, signers, garbage) ==
    IF Len(self.signers) > MAX_MULTISIG_SIGNERS
    THEN Refused("InvalidArgument", <<"capacity_check">>)
    ELSE LET expected_accounts == 3 + Len(self.signers)
             capacity == 3 + MAX_MULTISIG_SIGNERS
         IN HandOver(capacity,
                from_raw_parts(instruction_accounts(capacity,
                                   <<writable(self.mint), writable(self.destination)>>,
                                   self.authority, self.signers, garbage),
                               expected_accounts, garbage.account),
                from_raw_parts(account_views(capacity, <<self.mint, self.destination>>,
                                   self.authority, self.signers, garbage),
                               expected_accounts, garbage.view),
                slice(<<ExtensionDiscriminator("TransferFee"), 2>>),
                BuilderTrace)

\* WithdrawWithheldTokensFromAccounts::invoke_signed writing the sources
\* from slot 3, over the multisig signers.
WithdrawWithheldTokensFromAccounts_sources_at_3(self, signers, garbage) ==
    IF Len(self.signers) > MAX_MULTISIG_SIGNERS
    THEN Refused("InvalidArgument", <<"capacity_check">>)
    ELSE LET expected_accounts == 3 + Len(self.signers) + Len(self.sources)
             capacity == MAX_STATIC_CPI_ACCOUNTS
         IN IF expected_accounts > MAX_STATIC_CPI_ACCOUNTS
            THEN Refused("InvalidArgument", <<"capacity_check", "accounts_check">>)
            ELSE HandOver(capacity,
                from_raw_parts(
                    write_zip(instruction_accounts(capacity,
                                  <<writable(self.mint), writable(self.destination)>>,
                                  self.authority, self.signers, garbage),
                              3,
                              [i \in 1 .. Len(self.sources) |-> writable(self.sources[i])]),
                    expected_accounts, garbage.account),
                from_raw_parts(
                    write_zip(account_views(capacity, <<self.mint, self.destination>>,
                                  self.authority, self.signers, garbage),
                              3, self.sources),
                    expected_accounts, garbage.view),
                slice(<<ExtensionDiscriminator("TransferFee"), 3, as_u8(Len(self.sources))>>),
                <<"capacity_check", "accounts_check", "instruction_accounts",
                  "instruction_data", "accounts", "invoke">>)

\* transfer_fee::WithdrawWithheldTokensFromAccounts::invoke_signed: the
\* sources follow the multisig signers.
WithdrawWithheldTokensFromAccounts_invoke_signed(self, signers, garbage) ==
    IF Len(self.signers) > MAX_MULTISIG_SIGNERS
    THEN Refused("InvalidArgument", <<"capacity_check">>)
    ELSE LET expected_accounts == 3 + Len(self.signers) + Len(self.sources)
             capacity == MAX_STATIC_CPI_ACCOUNTS
         IN IF expected_accounts > MAX_STATIC_CPI_ACCOUNTS
            THEN Refused("InvalidArgument", <<"capacity_check", "accounts_check">>)
            ELSE HandOver(capacity,
                from_raw_parts(
                    write_zip(instruction_accounts(capacity,
                                  <<writable(self.mint), writable(self.destination)>>,
                                  self.authority, self.signers, garbage),
                              3 + Len(self.signers),
                              [i \in 1 .. Len(self.sources) |-> writable(self.sources[i])]),
                    expected_accounts, garbage.account),
                from_raw_parts(
                    write_zip(account_views(capacity, <<self.mint, self.destination>>,
                                  self.authority, self.signers, garbage),
                              3 + Len(self.signers), self.sources),
                    expected_accounts, garbage.view),
                slice(<<ExtensionDiscriminator("TransferFee"), 3, as_u8(Len(self.sources))>>),
                <<"capacity_check", "accounts_check", "instruction_accounts",
                  "instruction_data", "accounts", "invoke">>)

\* Reallocate::invoke_signed.  The extension codes are written by index into
\* the payload buffer: an index past the buffer panics.
Reallocate_invoke_signed(self, signers, garbage) ==
    IF Len(self.signers) > MAX_MULTISIG_SIGNERS
    THEN Refused("InvalidArgument", <<"capacity_check">>)
    ELSE LET expected_accounts == 4 + Len(self.signers)
             expected_data == 1 + Len(self.extensions)
             capacity == 4 + MAX_MULTISIG_SIGNERS
             d0 == write(uninit_array(REALLOCATE_DATA_CAPACITY, garbage.byte), 0, 29)
             instruction_data ==
                 write_zip(d0, 1, [i \in 1 .. Len(self.extensions) |->
                                      ExtensionDiscriminator(self.extensions[i])])
         IN IF expected_data > REALLOCATE_DATA_CAPACITY
            THEN Refused("Panic", <<"capacity_check", "instruction_accounts",
                                    "instruction_data">>)
            ELSE HandOver(capacity,
                from_raw_parts(instruction_accounts(capacity,
                                   <<writable(self.account), writable_signer(self.payer),
                                     readonly(self.system_program)>>,
                                   self.owner, self.signers, garbage),
                               expected_accounts, garbage.account),
                from_raw_parts(account_views(capacity,
                                   <<self.account, self.payer, self.system_program>>,
                                   self.owner, self.signers, garbage),
                               expected_accounts, garbage.view),
                from_raw_parts(instruction_data, expected_data, garbage.byte),
                <<"capacity_check", "instruction_accounts", "instruction_data",
                  "accounts", "invoke">>)

\* cpi::invoke_with_bounds::<N>(instruction, account_views): no PDA signers.
invoke_with_bounds(N, accounts, data, views) ==
    invoke_signed_with_bounds(N, accounts, data, views, 0)

\* transfer_fee::HarvestWithheldTokensToMint::invoke, rejecting a list that
\* exactly fills the arrays.
HarvestWithheldTokensToMint_inclusive(self, garbage) ==
    LET expected_accounts == 1 + Len(self.sources)
        capacity == MAX_STATIC_CPI_ACCOUNTS
    IN IF expected_accounts >= MAX_STATIC_CPI_ACCOUNTS
       THEN Refused("InvalidArgument", <<"accounts_check">>)
       ELSE HandOver(capacity,
                from_raw_parts(
                    write_zip(write(uninit_array(capacity, garbage.account), 0,
                                    writable(self.mint)),
                              1, [i \in 1 .. Len(self.sources) |-> writable(self.sources[i])]),
                    expected_accounts, garbage.account),
                from_raw_parts(
                    write_zip(write(uninit_array(capacity, garbage.view), 0, self.mint),
                              1, self.sources),
                    expected_accounts, garbage.view),
                slice(<<ExtensionDiscriminator("TransferFee"), 4>>),
                <<"accounts_check", "instruction_accounts", "accounts", "invoke">>)

\* transfer_fee::HarvestWithheldTokensToMint::invoke: the mint, then the
\* sources, all writable.
HarvestWithheldTokensToMint_invoke(self, garbage) ==
    LET expected_accounts == 1 + Len(self.sources)
        capacity == MAX_STATIC_CPI_ACCOUNTS
    IN IF expected_accounts > MAX_STATIC_CPI_ACCOUNTS
       THEN Refused("InvalidArgument", <<"accounts_check">>)
       ELSE HandOver(capacity,
                from_raw_parts(
                    write_zip(write(uninit_array(capacity, garbage.account), 0,
                                    writable(self.mint)),
                              1, [i \in 1 .. Len(self.sources) |-> writable(self.sources[i])]),
                    expected_accounts, garbage.account),
                from_raw_parts(
                    write_zip(write(uninit_array(capacity, garbage.view), 0, self.mint),
                              1, self.sources),
                    expected_accounts, garbage.view),
                slice(<<ExtensionDiscriminator("TransferFee"), 4>>),
                <<"accounts_check", "instruction_accounts", "accounts", "invoke">>)

\* The 66-byte payload with nothing written for an absent address.
two_address_payload_absent_skipped(extension, discriminator, first, second, garbage) ==
    LET d0 == uninit_array(66, garbage.byte)
        d1 == write(d0, 0, ExtensionDiscriminator(extension))
        d2 == write(d1, 1, discriminator)
        d3 == write_bytes_into(d2, 2, 34,
                  IF first # "None" THEN as_ref(first) ELSE << >>)
    IN write_bytes_into(d3, 34, 66,
           IF second # "None" THEN as_ref(second) ELSE << >>)

\* The 66-byte payload of the pointer and hook initializers: the two
\* discriminators, then each address or 32 zero bytes.
two_address_payload(extension, discriminator, first, second, garbage) ==
    LET d0 == uninit_array(66, garbage.byte)
        d1 == write(d0, 0, ExtensionDiscriminator(extension))
        d2 == write(d1, 1, discriminator)
        d3 == write_bytes_into(d2, 2, 34,
                  IF first # "None" THEN as_ref(first) ELSE zeros(32))
    IN write_bytes_into(d3, 34, 66,
           IF second # "None" THEN as_ref(second) ELSE zeros(32))

\* group_member_pointer::Initialize::invoke
GroupMemberPointer_Initialize_invoke(self, garbage) ==
    HandOver(1, slice(<<writable(self.mint)>>), slice(<<self.mint>>),
             from_raw_parts(
                 two_address_payload("GroupMemberPointer", 0, self.authority,
                                     self.member_address, garbage),
                 66, garbage.byte),
             <<"instruction_data", "invoke">>)

\* transfer_hook::InitializeTransferHook::invoke
InitializeTransferHook_invoke(self, garbage) ==
    HandOver(1, slice(<<writable(self.mint)>>), slice(<<self.mint>>),
             from_raw_parts(
                 two_address_payload("TransferHook", 0, self.authority,
                                     self.program_id, garbage),
                 66, garbage.byte),
             <<"instruction_data", "invoke">>)

\* scaled_ui_amount::Initialize::invoke.  Slot 0 gets the extension
\* discriminator, slots 2..34 the authority and slots 34..42 the multiplier;
\* the whole buffer is handed over.
ScaledUiAmount_Initialize_invoke(self, garbage) ==
    LET d0 == uninit_array(42, garbage.byte)
        d1 == write(d0, 0, ExtensionDiscriminator("ScaledUiAmount"))
        d2 == write_bytes_into(d1, 2, 34,
                  IF self.authority # "None" THEN as_ref(self.authority) ELSE zeros(32))
        instruction_data == write_bytes_into(d2, 34, 42, to_le_bytes(self.multiplier, 8))
    IN HandOver(1, slice(<<writable(self.mint_account)>>), slice(<<self.mint_account>>),
                from_raw_parts(instruction_data, 42, garbage.byte),
                <<"instruction_data", "invoke">>)

\* permanent_delegate::InitializePermanentDelegate::invoke
InitializePermanentDelegate_invoke(self, garbage) ==
    LET d0 == uninit_array(33, garbage.byte)
        d1 == write(d0, 0, ExtensionDiscriminator("PermanentDelegate"))
        instruction_data == write_bytes_into(d1, 1, 33, as_ref(self.delegate))
    IN HandOver(1, slice(<<writable(self.mint)>>), slice(<<self.mint>>),
                from_raw_parts(instruction_data, 33, garbage.byte),
                <<"instruction_data", "invoke">>)

\* default_account_state::Initialize::invoke
DefaultAccountState_Initialize_invoke(self) ==
    HandOver(1, slice(<<writable(self.mint)>>), slice(<<self.mint>>),
             slice(<<ExtensionDiscriminator("DefaultAccountState"), 0, as_u8(self.state)>>),
             <<"invoke">>)

\* The source lists passed to HarvestWithheldTokensToMint: every length up
\* to one more than fits beside the mint.
HarvestSourceLists ==
    { [i \in 1 .. n |-> IF i % 2 = 1 THEN first ELSE "source_b"] :
        n \in 0 .. MAX_STATIC_CPI_ACCOUNTS, first \in SourceAccounts }

\* The extension lists passed to Reallocate: none, one, two, as many as the
\* payload buffer holds beside the discriminator, and one more.
ExtensionLists ==
    { [i \in 1 .. n |-> IF i % 2 = 1 THEN first ELSE "TransferHook"] :
        n \in {0, 1, 2, REALLOCATE_DATA_CAPACITY - 1, REALLOCATE_DATA_CAPACITY},
        first \in {"TransferFee", "MemoTransfer"} }

\* AccountState as u8: Initialized, Frozen.
AccountStates == {1, 2}

\* The record of a builder call: its arguments, what it handed over, whether
\* the CPI was issued and the result it returned.
Invoked(builder, self, signers, built, out) ==
    [builder |-> builder, self |-> self, signers |-> signers,
     result |-> out.result, issued |-> out.issued, handed |-> built.handed,
     trace |-> built.trace, capacity |-> built.capacity,
     accounts |-> built.accounts, views |-> built.views, data |-> built.data]

\* The tail of invoke_signed: the call of the invocation layer, or the error
\* the builder returned before it.
Outcomes(built, signers) ==
    IF built.handed
    THEN invoke_signed_with_bounds(built.capacity, built.accounts, built.data,
                                   built.views, signers)
    ELSE { [result |-> built.result, issued |-> FALSE] }

\* The state a program builds an instruction in.
InitBuild ==
    /\ account = EntryAccount(0, 1, "owner_a", [i \in MemIdx |-> GuardByte])
    /\ last = NoCall
    /\ prev = NoCall
    /\ IdleFlow
    /\ payer_lamports = 0

DefaultAccountState_Update ==
    /\ invocation = NoInvocation
    /\ \E multisig_signers \in SignerLists, state \in AccountStates,
          signers \in PdaSignerCounts, garbage \in Garbage :
        LET self == [mint |-> "mint", freeze_authority |-> "authority",
                     multisig_signers |-> multisig_signers, state |-> state]
            built == DefaultAccountState_Update_invoke_signed(self, signers, garbage)
        IN \E out \in Outcomes(built, signers) :
            invocation' = Invoked("default_account_state::Update", self, signers, built, out)
    /\ UNCHANGED sdkVars

UpdateTransferHook ==
    /\ invocation = NoInvocation
    /\ \E multisig_signers \in SignerLists, program \in OptionalAddresses,
          signers \in PdaSignerCounts, garbage \in Garbage :
        LET self == [mint |-> "mint", authority |-> "authority",
                     multisig_signers |-> multisig_signers,
                     transfer_hook_program |-> program]
            built == UpdateTransferHook_invoke_signed(self, signers, garbage)
        IN \E out \in Outcomes(built, signers) :
            invocation' = Invoked("UpdateTransferHook", self, signers, built, out)
    /\ UNCHANGED sdkVars

MetadataPointer_Update ==
    /\ invocation = NoInvocation
    /\ \E multisig_signers \in SignerLists, address \in OptionalAddresses,
          signers \in PdaSignerCounts, garbage \in Garbage :
        LET self == [mint |-> "mint", authority |-> "authority",
                     multisig_signers |-> multisig_signers,
                     metadata_address |-> address]
            built == MetadataPointer_Update_invoke_signed(self, signers, garbage)
        IN \E out \in Outcomes(built, signers) :
            invocation' = Invoked("metadata_pointer::Update", self, signers, built, out)
    /\ UNCHANGED sdkVars

GroupMemberPointer_Update ==
    /\ invocation = NoInvocation
    /\ \E multisig_signers \in SignerLists, address \in OptionalAddresses,
          signers \in PdaSignerCounts, garbage \in Garbage :
        LET self == [mint |-> "mint", authority |-> "authority",
                     multisig_signers |-> multisig_signers,
                     member_address |-> address]
            built == GroupMemberPointer_Update_invoke_signed(self, signers, garbage)
        IN \E out \in Outcomes(built, signers) :
            invocation' = Invoked("group_member_pointer::Update", self, signers, built, out)
    /\ UNCHANGED sdkVars

Enable ==
    /\ invocation = NoInvocation
    /\ \E multisig_signers \in SignerLists, signers \in PdaSignerCounts,
          garbage \in Garbage :
        LET self == [account |-> "account", authority |-> "authority",
                     multisig_signers |-> multisig_signers]
            built == Enable_invoke_signed(self, signers, garbage)
        IN \E out \in Outcomes(built, signers) :
            invocation' = Invoked("memo_transfer::Enable", self, signers, built, out)
    /\ UNCHANGED sdkVars

UpdateMultiplier ==
    /\ invocation = NoInvocation
    /\ \E multisig_signers \in SignerLists, multiplier \in U64Values,
          effective_timestamp \in U64Values, signers \in PdaSignerCounts,
          garbage \in Garbage :
        LET self == [mint |-> "mint", authority |-> "authority",
                     multisig_signers |-> multisig_signers,
                     multiplier |-> multiplier,
                     effective_timestamp |-> effective_timestamp]
            built == UpdateMultiplier_invoke_signed(self, signers, garbage)
        IN \E out \in Outcomes(built, signers) :
            invocation' = Invoked("UpdateMultiplier", self, signers, built, out)
    /\ UNCHANGED sdkVars

TransferCheckedWithFee ==
    /\ invocation = NoInvocation
    /\ \E multisig \in SignerLists, amount \in U64Values, decimals \in U8Values,
          fee \in U64Values, signers \in PdaSignerCounts, garbage \in Garbage :
        LET self == [source |-> "source", mint |-> "mint",
                     destination |-> "destination", authority |-> "authority",
                     signers |-> multisig, amount |-> amount,
                     decimals |-> decimals, fee |-> fee]
            built == TransferCheckedWithFee_invoke_signed(self, signers, garbage)
        IN \E out \in Outcomes(built, signers) :
            invocation' = Invoked("TransferCheckedWithFee", self, signers, built, out)
    /\ UNCHANGED sdkVars

SetTransferFee ==
    /\ invocation = NoInvocation
    /\ \E multisig \in SignerLists, transfer_fee_basis_points \in U16Values,
          maximum_fee \in U64Values, signers \in PdaSignerCounts,
          garbage \in Garbage :
        LET self == [mint |-> "mint", authority |-> "authority",
                     signers |-> multisig,
                     transfer_fee_basis_points |-> transfer_fee_basis_points,
                     maximum_fee |-> maximum_fee]
            built == SetTransferFee_invoke_signed(self, signers, garbage)
        IN \E out \in Outcomes(built, signers) :
            invocation' = Invoked("SetTransferFee", self, signers, built, out)
    /\ UNCHANGED sdkVars

InitializeTransferFeeConfig ==
    /\ invocation = NoInvocation
    /\ \E config_authority \in OptionalAddresses,
          withdraw_authority \in OptionalAddresses,
          transfer_fee_basis_points \in U16Values, maximum_fee \in U64Values,
          garbage \in Garbage :
        LET self == [mint |-> "mint",
                     transfer_fee_config_authority |-> config_authority,
                     withdraw_withheld_authority |-> withdraw_authority,
                     transfer_fee_basis_points |-> transfer_fee_basis_points,
                     maximum_fee |-> maximum_fee]
            built == InitializeTransferFeeConfig_invoke(self, garbage)
        IN \E out \in invoke(built.accounts, built.data, built.views) :
            invocation' = Invoked("InitializeTransferFeeConfig", self, 0, built, out)
    /\ UNCHANGED sdkVars

WithdrawWithheldTokensFromMint ==
    /\ invocation = NoInvocation
    /\ \E multisig \in SignerLists, signers \in PdaSignerCounts, garbage \in Garbage :
        LET self == [mint |-> "mint", destination |-> "destination",
                     authority |-> "authority", signers |-> multisig]
            built == WithdrawWithheldTokensFromMint_invoke_signed(self, signers, garbage)
        IN \E out \in Outcomes(built, signers) :
            invocation' = Invoked("WithdrawWithheldTokensFromMint", self, signers, built, out)
    /\ UNCHANGED sdkVars

WithdrawWithheldTokensFromAccounts ==
    /\ invocation = NoInvocation
    /\ \E multisig \in SignerLists, sources \in SourceLists,
          signers \in PdaSignerCounts, garbage \in Garbage :
        LET self == [mint |-> "mint", destination |-> "destination",
                     authority |-> "authority", signers |-> multisig,
                     sources |-> sources]
            built == WithdrawWithheldTokensFromAccounts_invoke_signed(self, signers, garbage)
        IN \E out \in Outcomes(built, signers) :
            invocation' = Invoked("WithdrawWithheldTokensFromAccounts", self, signers, built, out)
    /\ UNCHANGED sdkVars

Reallocate ==
    /\ invocation = NoInvocation
    /\ \E multisig \in SignerLists, extensions \in ExtensionLists,
          signers \in PdaSignerCounts, garbage \in Garbage :
        LET self == [account |-> "account", payer |-> "payer",
                     system_program |-> "system_program", owner |-> "owner",
                     signers |-> multisig, extensions |-> extensions]
            built == Reallocate_invoke_signed(self, signers, garbage)
        IN \E out \in Outcomes(built, signers) :
            invocation' = Invoked("Reallocate", self, signers, built, out)
    /\ UNCHANGED sdkVars

HarvestWithheldTokensToMint ==
    /\ invocation = NoInvocation
    /\ \E sources \in HarvestSourceLists, garbage \in Garbage :
        LET self == [mint |-> "mint", sources |-> sources]
            built == HarvestWithheldTokensToMint_invoke(self, garbage)
        IN \E out \in IF built.handed
                      THEN invoke_with_bounds(built.capacity, built.accounts,
                                              built.data, built.views)
                      ELSE { [result |-> built.result, issued |-> FALSE] } :
            invocation' = Invoked("HarvestWithheldTokensToMint", self, 0, built, out)
    /\ UNCHANGED sdkVars

GroupMemberPointer_Initialize ==
    /\ invocation = NoInvocation
    /\ \E authority \in OptionalAddresses, member_address \in OptionalAddresses,
          garbage \in Garbage :
        LET self == [mint |-> "mint", authority |-> authority,
                     member_address |-> member_address]
            built == GroupMemberPointer_Initialize_invoke(self, garbage)
        IN \E out \in invoke(built.accounts, built.data, built.views) :
            invocation' = Invoked("group_member_pointer::Initialize", self, 0, built, out)
    /\ UNCHANGED sdkVars

InitializeTransferHook ==
    /\ invocation = NoInvocation
    /\ \E authority \in OptionalAddresses, program \in OptionalAddresses,
          garbage \in Garbage :
        LET self == [mint |-> "mint", authority |-> authority, program_id |-> program]
            built == InitializeTransferHook_invoke(self, garbage)
        IN \E out \in invoke(built.accounts, built.data, built.views) :
            invocation' = Invoked("InitializeTransferHook", self, 0, built, out)
    /\ UNCHANGED sdkVars

ScaledUiAmount_Initialize ==
    /\ invocation = NoInvocation
    /\ \E authority \in OptionalAddresses, multiplier \in U64Values,
          garbage \in Garbage :
        LET self == [mint_account |-> "mint", authority |-> authority,
                     multiplier |-> multiplier]
            built == ScaledUiAmount_Initialize_invoke(self, garbage)
        IN \E out \in invoke(built.accounts, built.data, built.views) :
            invocation' = Invoked("scaled_ui_amount::Initialize", self, 0, built, out)
    /\ UNCHANGED sdkVars

InitializePermanentDelegate ==
    /\ invocation = NoInvocation
    /\ \E delegate \in OptionalAddresses \ {"None"}, garbage \in Garbage :
        LET self == [mint |-> "mint", delegate |-> delegate]
            built == InitializePermanentDelegate_invoke(self, garbage)
        IN \E out \in invoke(built.accounts, built.data, built.views) :
            invocation' = Invoked("InitializePermanentDelegate", self, 0, built, out)
    /\ UNCHANGED sdkVars

DefaultAccountState_Initialize ==
    /\ invocation = NoInvocation
    /\ \E state \in AccountStates :
        LET self == [mint |-> "mint", state |-> state]
            built == DefaultAccountState_Initialize_invoke(self)
        IN \E out \in invoke(built.accounts, built.data, built.views) :
            invocation' = Invoked("default_account_state::Initialize", self, 0, built, out)
    /\ UNCHANGED sdkVars

NextBuild ==
    \/ DefaultAccountState_Update
    \/ UpdateTransferHook
    \/ MetadataPointer_Update
    \/ GroupMemberPointer_Update
    \/ Enable
    \/ UpdateMultiplier
    \/ TransferCheckedWithFee
    \/ SetTransferFee
    \/ InitializeTransferFeeConfig
    \/ WithdrawWithheldTokensFromMint
    \/ WithdrawWithheldTokensFromAccounts
    \/ Reallocate
    \/ HarvestWithheldTokensToMint
    \/ GroupMemberPointer_Initialize
    \/ InitializeTransferHook
    \/ ScaledUiAmount_Initialize
    \/ InitializePermanentDelegate
    \/ DefaultAccountState_Initialize

SpecBuild == InitBuild /\ [][NextBuild]_vars

(***************************************************************************)
(* Properties of resize and resize_unchecked (checked under Spec).         *)
(***************************************************************************)
IsResizeCall == last.op \in {"resize", "resize_unchecked"}

Borrowed(acc) == acc.borrow_state # NOT_BORROWED

\* The call asked for a length other than the current one, more than the
\* growth limit above the recorded original length.
BeyondLimit ==
    /\ IsResizeCall
    /\ last.new_len # last.pre.data_len
    /\ last.new_len - last.pre.padding > MAX_PERMITTED_DATA_INCREASE

LengthAndBytesKept ==
    /\ account.data_len = last.pre.data_len
    /\ account.data = last.pre.data

\* C1, as stated: resize(new_len) and resize_unchecked(new_len) with
\* new_len # n and new_len - L0 > MAX_PERMITTED_DATA_INCREASE return
\* InvalidRealloc and leave the data length and the data bytes as they were.
C1_AsStated ==
    BeyondLimit => (last.result = "InvalidRealloc" /\ LengthAndBytesKept)

\* C1, amended: such a call leaves the data length and the data bytes as they
\* were; resize_unchecked, and resize called with no borrow of the data
\* outstanding, return InvalidRealloc, while resize called with a borrow
\* outstanding returns the borrow error.
C1_InvalidRealloc ==
    BeyondLimit =>
        /\ LengthAndBytesKept
        /\ last.result = IF last.op = "resize" /\ Borrowed(last.pre)
                         THEN "AccountBorrowFailed" ELSE "InvalidRealloc"

\* A resize beyond the limit of an account that was grown before, refused.
C1_Witness ==
    /\ BeyondLimit
    /\ last.op = "resize"
    /\ last.result = "InvalidRealloc"
    /\ last.pre.data_len > last.pre.padding
    /\ last.new_len - last.pre.data_len <= MAX_PERMITTED_DATA_INCREASE

\* C2: a successful resize from length n to new_len > n sets every byte at
\* offsets n .. new_len-1 to zero and leaves every byte at offsets 0 .. n-1
\* unchanged.
C2_GrowZeroFills ==
    (IsResizeCall /\ last.result = "Ok" /\ last.new_len > last.pre.data_len) =>
        \A i \in MemIdx :
            /\ (i >= last.pre.data_len /\ i < last.new_len) => account.data[i] = 0
            /\ i < last.pre.data_len => account.data[i] = last.pre.data[i]

\* A growth that exposed stale non-zero bytes and kept a non-zero byte.
C2_Witness ==
    /\ IsResizeCall /\ last.result = "Ok" /\ last.new_len > last.pre.data_len + 1
    /\ last.pre.data[last.new_len - 1] # 0
    /\ last.pre.data_len > 0
    /\ account.data[0] # 0

\* Two consecutive calls resize(a); resize(b), from the account state n0.
IsResizePair == last.op = "resize" /\ prev.op = "resize"

\* resize(b) alone on the state the pair started from.
Alone == resize(prev.pre, last.new_len)

\* C3, as stated: resize(a) followed by resize(b) leaves the same data length,
\* data bytes within that length and data pointer as resize(b) alone.
C3_AsStated ==
    IsResizePair =>
        /\ account.data_len = Alone.account.data_len
        /\ \A i \in MemIdx :
              i < account.data_len => account.data[i] = Alone.account.data[i]
        /\ data_ptr(account) = data_ptr(Alone.account)

\* C3, amended: the data pointer is the same as after resize(b) alone; when
\* resize(b) alone succeeds, the pair ends with the same data length b, and
\* each byte below b is the byte resize(b) alone leaves, except that the bytes
\* at offsets >= a are zero when resize(a) succeeded.
C3_PathDependence ==
    IsResizePair =>
        /\ data_ptr(account) = data_ptr(Alone.account)
        /\ Alone.result = "Ok" =>
              /\ last.result = "Ok"
              /\ account.data_len = last.new_len
              /\ account.data_len = Alone.account.data_len
              /\ \A i \in MemIdx :
                    i < account.data_len =>
                        account.data[i] =
                            IF prev.result = "Ok" /\ i >= prev.new_len
                            THEN 0 ELSE Alone.account.data[i]

\* A pair that truncated a non-zero byte and grew back over it.
C3_Witness ==
    /\ IsResizePair
    /\ prev.result = "Ok" /\ last.result = "Ok"
    /\ prev.new_len < prev.pre.data_len
    /\ prev.new_len < last.new_len
    /\ prev.pre.data[prev.new_len] # 0
    /\ Alone.account.data[prev.new_len] # 0

\* C4: resize_unchecked(new_len) with new_len equal to the current length
\* returns success and changes nothing (no byte, not the length, not the data
\* pointer), and the growth-limit check is not applied.
C4_SameLengthNoOp ==
    (last.op = "resize_unchecked" /\ last.new_len = last.pre.data_len) =>
        /\ last.result = "Ok"
        /\ account = last.pre
        /\ data_ptr(account) = data_ptr(last.pre)
        /\ last.trace = <<"len_eq">>

\* A same-length resize_unchecked of a grown account holding non-zero data.
C4_Witness ==
    /\ last.op = "resize_unchecked"
    /\ last.new_len = last.pre.data_len
    /\ last.pre.data_len > last.pre.padding
    /\ last.pre.data[0] # 0

\* C5: with no borrow outstanding, resize(new_len) succeeds for every
\* new_len <= L0 + MAX_PERMITTED_DATA_INCREASE, data_len() is new_len
\* afterwards, and a shared borrow then yields exactly new_len bytes.
C5_ResizeSucceeds ==
    /\ (/\ last.op = "resize"
        /\ ~Borrowed(last.pre)
        /\ last.new_len <= last.pre.padding + MAX_PERMITTED_DATA_INCREASE) =>
            (last.result = "Ok" /\ data_len(account) = last.new_len)
    /\ (/\ last.op = "try_borrow"
        /\ prev.op = "resize"
        /\ prev.result = "Ok") =>
            (last.slice_len = prev.new_len /\ data_len(account) = prev.new_len)

\* A shared borrow right after a resize to the largest permitted length, of
\* an account that had been emptied before.
C5_Witness ==
    /\ last.op = "try_borrow"
    /\ prev.op = "resize"
    /\ prev.result = "Ok"
    /\ prev.pre.data_len = 0
    /\ prev.pre.padding > 0
    /\ prev.new_len = prev.pre.padding + MAX_PERMITTED_DATA_INCREASE
    /\ last.slice_len = prev.new_len

\* C6: resize called while a shared or exclusive borrow of the data is
\* outstanding fails with the borrow error for every new_len and changes
\* nothing; the borrow check is the only step it takes.
C6_BorrowedResizeFails ==
    (last.op = "resize" /\ Borrowed(last.pre)) =>
        /\ last.result = "AccountBorrowFailed"
        /\ account = last.pre
        /\ last.trace = <<"check_borrow_mut">>

\* A resize to the current length under a shared borrow.
C6_Witness ==
    /\ last.op = "resize"
    /\ last.pre.borrow_state.shared > 0
    /\ last.new_len = last.pre.data_len
    /\ last.result = "AccountBorrowFailed"

\* The offsets behind the data pointer that lie past the region reserved for
\* the account (its original length plus the growth limit).
PastReserved(acc) ==
    { i \in MemIdx : i >= acc.padding + MAX_PERMITTED_DATA_INCREASE }

\* C7: the data pointer is the same before and after any sequence of resize
\* calls, and a resize call rewrites nothing but the length field and bytes of
\* the reserved region.
C7_PointerStable ==
    /\ data_ptr(account) = <<"acct", "data">>
    /\ IsResizeCall =>
          /\ data_ptr(account) = data_ptr(last.pre)
          /\ account = [last.pre EXCEPT !.data_len = account.data_len,
                                        !.data = account.data]
          /\ \A i \in PastReserved(last.pre) : account.data[i] = last.pre.data[i]

\* A growth after a shrink and a refused call: the pointer is where it was.
C7_Witness ==
    /\ IsResizePair
    /\ prev.result = "InvalidRealloc"
    /\ last.result = "Ok"
    /\ last.new_len > last.pre.data_len
    /\ last.pre.data_len < last.pre.padding
    /\ data_ptr(account) = data_ptr(prev.pre)

(***************************************************************************)
(* Properties of create_account_with_minimum_balance_signed (checked under *)
(* SpecCreate).                                                            *)
(***************************************************************************)
\* The helper was called and the rent-exempt minimum for `space` was
\* computed: call.lamports is that minimum.
MinimumKnown == pc # "idle" /\ ret # "RentUnavailable"

Returned == pc = "done"

Resized == last.op = "resize_unchecked"

IssuedKinds == { cpi_log[i].ix : i \in 1 .. Len(cpi_log) }

\* The lamports the target lacked when the helper was called.
Shortfall == saturating_sub(call.lamports, call.entry_lamports)

\* C8: on a target with zero lamports the helper issues exactly one CPI, a
\* CreateAccount from the payer to the target with lamports equal to the
\* rent-exempt minimum for `space`, space = `space` and the requested owner,
\* and issues no Transfer, no Assign and no resize.
C8_CreatesWithOneCpi ==
    (MinimumKnown /\ call.entry_lamports = 0) =>
        /\ IssuedKinds \subseteq {"CreateAccount"}
        /\ Len(cpi_log) <= 1
        /\ ~Resized
        /\ Returned =>
              /\ Len(cpi_log) = 1
              /\ cpi_log[1].ix = "CreateAccount"
              /\ cpi_log[1].from = "payer"
              /\ cpi_log[1].to = "acct"
              /\ cpi_log[1].lamports = call.lamports
              /\ cpi_log[1].space = call.space
              /\ cpi_log[1].owner = call.owner
              /\ ret = cpi_log[1].result

\* The helper returned success after creating an account with data.
C8_Witness ==
    /\ MinimumKnown /\ Returned
    /\ call.entry_lamports = 0
    /\ ret = "Ok"
    /\ call.lamports > 0
    /\ call.space > 0
    /\ account.data_len = call.space
    /\ account.owner = call.owner
    /\ account.lamports = call.lamports

\* C9: on the existing-account path the steps occur in the order Transfer
\* (only if there is a shortfall), Assign, resize: Assign is never issued
\* before the Transfer has returned success, and the resize never happens
\* before the Assign has returned success.
C9_StepOrder ==
    (MinimumKnown /\ call.entry_lamports > 0) =>
        /\ \A i \in 1 .. Len(cpi_log) :
              /\ cpi_log[i].ix \in {"Transfer", "Assign"}
              /\ cpi_log[i].ix = "Transfer" => (i = 1 /\ Shortfall > 0)
              /\ cpi_log[i].ix = "Assign" =>
                    \/ i = 1 /\ Shortfall = 0
                    \/ /\ i = 2
                       /\ cpi_log[1].ix = "Transfer"
                       /\ cpi_log[1].result = "Ok"
        /\ Resized =>
              /\ Len(cpi_log) >= 1
              /\ cpi_log[Len(cpi_log)].ix = "Assign"
              /\ cpi_log[Len(cpi_log)].result = "Ok"
              /\ last.pre.owner = call.owner

\* All three steps ran: a Transfer of the shortfall, the Assign, a resize.
C9_Witness ==
    /\ MinimumKnown /\ Returned
    /\ call.entry_lamports > 0
    /\ Len(cpi_log) = 2
    /\ cpi_log[1].ix = "Transfer"
    /\ cpi_log[2].ix = "Assign"
    /\ Resized
    /\ last.new_len # last.pre.data_len
    /\ ret = "Ok"

\* C10: on a target whose lamports are non-zero and at least the rent-exempt
\* minimum for `space` the helper issues no Transfer, still issues the
\* Assign to the requested owner, and on success leaves the data length of
\* the target equal to `space`.
C10_FundedTarget ==
    (MinimumKnown /\ call.entry_lamports > 0 /\ call.entry_lamports >= call.lamports) =>
        /\ "Transfer" \notin IssuedKinds
        /\ (Returned \/ Resized) =>
              /\ Len(cpi_log) = 1
              /\ cpi_log[1].ix = "Assign"
              /\ cpi_log[1].to = "acct"
              /\ cpi_log[1].owner = call.owner
        /\ (Returned /\ ret = "Ok") =>
              /\ Resized
              /\ account.data_len = call.space
              /\ account.owner = call.owner

\* A funded target the requested owner already owns, resized on success.
C10_Witness ==
    /\ MinimumKnown /\ Returned
    /\ call.entry_lamports > call.lamports
    /\ ret = "Ok"
    /\ last.pre.padding > 0
    /\ Resized
    /\ last.pre.data_len # call.space
    /\ account.data_len = call.space
    /\ Len(cpi_log) = 1
    /\ cpi_log[1].owner = "owner_a"
    /\ cpi_log[1].result = "Ok"

\* The CPIs that returned an error.
FailedCpis == { i \in 1 .. Len(cpi_log) : cpi_log[i].result # "Ok" }

\* C11: the helper stops at the first failure and returns that error: when
\* the rent lookup or the minimum-balance computation fails no CPI is issued;
\* a CPI that fails is the last one issued, its error is the value returned,
\* no resize follows it, and the data length of the target is the one it had
\* when the helper was called (its original length).
C11_StopsAtFirstFailure ==
    /\ ret = "RentUnavailable" =>
          /\ Returned
          /\ cpi_log = << >>
          /\ ~Resized
          /\ account.data_len = account.padding
    /\ \A i \in FailedCpis :
          /\ i = Len(cpi_log)
          /\ Returned
          /\ ret = cpi_log[i].result
          /\ ~Resized
          /\ account.data_len = account.padding

\* The Transfer succeeded and the Assign failed, on a call whose `space`
\* differs from the data length of the target.
C11_Witness ==
    /\ Returned
    /\ Len(cpi_log) = 2
    /\ cpi_log[1].ix = "Transfer" /\ cpi_log[1].result = "Ok"
    /\ cpi_log[2].ix = "Assign" /\ cpi_log[2].result # "Ok"
    /\ ret = cpi_log[2].result
    /\ call.space # account.data_len
    /\ call.space <= account.padding + MAX_PERMITTED_DATA_INCREASE

(***************************************************************************)
(* The growth limit over a whole instruction (checked under Spec).         *)
(***************************************************************************)
\* C20: starting from an account whose current data length equals its
\* recorded original length L0 (account.padding), after any sequence of
\* resize and resize_unchecked calls the current data length never exceeds
\* L0 + MAX_PERMITTED_DATA_INCREASE, and no step changes the recorded
\* original length.
C20_GrowthBoundedByOriginal ==
    /\ [](account.data_len <= account.padding + MAX_PERMITTED_DATA_INCREASE)
    /\ [][account'.padding = account.padding]_vars

\* A call that succeeded in growing the data by more than the limit, counted
\* from the length at the time of the call, up to the limit counted from the
\* original length.
C20_Witness ==
    /\ IsResizeCall
    /\ last.result = "Ok"
    /\ last.new_len - last.pre.data_len > MAX_PERMITTED_DATA_INCREASE
    /\ account.data_len = last.new_len
    /\ account.data_len = account.padding + MAX_PERMITTED_DATA_INCREASE
    /\ account.padding = last.pre.padding

(***************************************************************************)
(* Properties of the token-2022 instruction builders (checked under        *)
(* SpecBuild).                                                             *)
(***************************************************************************)
\* The builders that take a list of multisig signer accounts.
MultisigBuilders ==
    {"default_account_state::Update", "UpdateTransferHook", "metadata_pointer::Update",
     "group_member_pointer::Update", "memo_transfer::Enable", "UpdateMultiplier",
     "TransferCheckedWithFee", "SetTransferFee", "WithdrawWithheldTokensFromMint",
     "WithdrawWithheldTokensFromAccounts", "Reallocate"}

IsMultisigCall == invocation.builder \in MultisigBuilders

\* The multisig signer accounts of the call (the field is named
\* multisig_signers or signers).
MultisigSigners ==
    IF "multisig_signers" \in DOMAIN invocation.self
    THEN invocation.self.multisig_signers
    ELSE invocation.self.signers

\* C12: every multisig-capable builder, called with more than
\* MAX_MULTISIG_SIGNERS multisig signer accounts, returns InvalidArgument
\* right after the capacity check: it encodes no instruction data, hands
\* nothing to the invocation layer and issues no CPI; with exactly
\* MAX_MULTISIG_SIGNERS signers the call gets past the capacity check.
C12_CapacityCheck ==
    IsMultisigCall =>
        /\ Len(MultisigSigners) > MAX_MULTISIG_SIGNERS =>
              /\ invocation.result = "InvalidArgument"
              /\ invocation.trace = <<"capacity_check">>
              /\ ~invocation.handed
              /\ ~invocation.issued
              /\ invocation.data = << >>
              /\ invocation.accounts = << >>
              /\ invocation.views = << >>
        /\ Len(MultisigSigners) = MAX_MULTISIG_SIGNERS =>
              /\ Len(invocation.trace) > 1
              /\ invocation.trace[1] = "capacity_check"

\* A multisig update called with one signer account more than the maximum.
C12_Witness ==
    /\ invocation.builder = "default_account_state::Update"
    /\ Len(MultisigSigners) = MAX_MULTISIG_SIGNERS + 1
    /\ invocation.result = "InvalidArgument"
    /\ ~invocation.issued

\* C13: TransferCheckedWithFee hands the invocation layer exactly
\* 4 + (number of multisig signer accounts) Instruction Accounts and as many
\* Account Views, whatever the number of PDA signer seed sets.
C13_AccountCount ==
    (invocation.builder = "TransferCheckedWithFee" /\ invocation.handed) =>
        /\ Len(invocation.accounts) = 4 + Len(invocation.self.signers)
        /\ Len(invocation.views) = 4 + Len(invocation.self.signers)

\* C14: the payload of SetTransferFee is the TransferFee extension
\* discriminator, the instruction discriminator 5, transfer_fee_basis_points
\* as 2 little-endian bytes and maximum_fee as 8 little-endian bytes.
C14_Payload ==
    (invocation.builder = "SetTransferFee" /\ invocation.handed) =>
        Values(invocation.data) =
            <<ExtensionDiscriminator("TransferFee"), 5>>
            \o to_le_bytes(invocation.self.transfer_fee_basis_points, 2)
            \o to_le_bytes(invocation.self.maximum_fee, 8)

\* An optional address encoded contiguously: the flag byte, then the address
\* bytes only when present.
OptionBytes(address) ==
    IF address = "None" THEN <<0>> ELSE <<1>> \o as_ref(address)

\* C15: for each combination of present and absent authorities the bytes
\* InitializeTransferFeeConfig hands over are the contiguous encoding: the
\* two discriminators, each optional authority as a flag byte followed by
\* its address only when present, transfer_fee_basis_points (2 bytes LE),
\* maximum_fee (8 bytes LE); their number is 14, 46 or 78.
C15_ContiguousEncoding ==
    invocation.builder = "InitializeTransferFeeConfig" =>
        /\ Values(invocation.data) =
              <<ExtensionDiscriminator("TransferFee"), 0>>
              \o OptionBytes(invocation.self.transfer_fee_config_authority)
              \o OptionBytes(invocation.self.withdraw_withheld_authority)
              \o to_le_bytes(invocation.self.transfer_fee_basis_points, 2)
              \o to_le_bytes(invocation.self.maximum_fee, 8)
        /\ Len(invocation.data) \in {14, 46, 78}

\* The roles the documentation of each builder lists for the fixed accounts
\* that precede the authority: <<is_writable, is_signer>> per account.
DocumentedPrefix(builder) ==
    CASE builder = "TransferCheckedWithFee" ->
            << <<TRUE, FALSE>>, <<FALSE, FALSE>>, <<TRUE, FALSE>> >>
      [] builder = "WithdrawWithheldTokensFromMint" ->
            << <<TRUE, FALSE>>, <<TRUE, FALSE>> >>
      [] builder = "WithdrawWithheldTokensFromAccounts" ->
            << <<FALSE, FALSE>>, <<TRUE, FALSE>> >>
      [] builder = "Reallocate" ->
            << <<TRUE, FALSE>>, <<TRUE, TRUE>>, <<FALSE, FALSE>> >>
      [] OTHER -> << <<TRUE, FALSE>> >>

\* The authority or owner account of the call.
AuthorityOf(self) ==
    IF "freeze_authority" \in DOMAIN self THEN self.freeze_authority
    ELSE IF "owner" \in DOMAIN self THEN self.owner
    ELSE self.authority

C17_DocumentedAccounts ==
    (invocation.builder = "WithdrawWithheldTokensFromAccounts" /\ invocation.handed) =>
        Values(invocation.accounts) =
            <<readonly(invocation.self.mint),
              writable(invocation.self.destination),
              InstructionAccount(invocation.self.authority, FALSE,
                                 invocation.self.signers = << >>)>>
            \o [i \in 1 .. Len(invocation.self.signers) |->
                   readonly_signer(invocation.self.signers[i])]
            \o [i \in 1 .. Len(invocation.self.sources) |->
                   writable(invocation.self.sources[i])]

(***************************************************************************)
(* The entrypoint parsers (sdk/src/entrypoint): the input buffer the host  *)
(* serializes, the eager parser of entrypoint! and the cursor of           *)
(* lazy_program_entrypoint! (InstructionContext).                          *)
(***************************************************************************)
\* The most accounts in a modelled input.
MaxAccounts == 3
\* The duplicate-index byte of a record that is not a duplicate.
NON_DUP_MARKER == 255
\* The alignment of the end of an account record.
BPF_ALIGN_OF_U128 == 8

\* The accounts the host serializes: data of lengths on both sides of an
\* alignment boundary, and a balance wider than a byte.
HostAccounts ==
    { [dup |-> NON_DUP_MARKER, is_signer |-> 1, is_writable |-> 1, executable |-> 0,
       address |-> "payer", owner |-> "system_program", lamports |-> 258,
       data |-> << >>],
      [dup |-> NON_DUP_MARKER, is_signer |-> 0, is_writable |-> 1, executable |-> 0,
       address |-> "mint", owner |-> "owner", lamports |-> 1, data |-> <<7>>],
      [dup |-> NON_DUP_MARKER, is_signer |-> 0, is_writable |-> 0, executable |-> 0,
       address |-> "account", owner |-> "owner", lamports |-> 0,
       data |-> <<7, 8, 9, 10, 11, 12, 13>>] }

\* An account of the instruction that repeats the account at `index`.
HostDuplicate(index) ==
    [dup |-> index, is_signer |-> 0, is_writable |-> 0, executable |-> 0,
     address |-> "stack", owner |-> "stack", lamports |-> 0, data |-> << >>]

\* The account lists of an instruction: an address occurs once as a full
\* record, and a later occurrence is a duplicate naming that record.
HostAccountLists ==
    { accounts \in SeqsUpTo(HostAccounts \cup { HostDuplicate(j) : j \in 0 .. MaxAccounts - 2 },
                            MaxAccounts) :
        \A i \in 1 .. Len(accounts) :
            IF accounts[i].dup = NON_DUP_MARKER
            THEN \A j \in 1 .. i - 1 : accounts[j].address # accounts[i].address
            ELSE /\ accounts[i].dup + 1 < i
                 /\ accounts[accounts[i].dup + 1].dup = NON_DUP_MARKER }

InstructionDatas == { << >>, <<3, 1>> }

\* The number of bytes that brings `offset` to the next multiple of `align`.
align_padding(offset, align) == (align - (offset % align)) % align

\* The record of one account in the input buffer.
HostRecord(a) ==
    IF a.dup # NON_DUP_MARKER
    THEN <<a.dup>> \o zeros(7)
    ELSE <<NON_DUP_MARKER, a.is_signer, a.is_writable, a.executable>> \o zeros(4)
         \o as_ref(a.address) \o as_ref(a.owner)
         \o to_le_bytes(a.lamports, 8) \o to_le_bytes(Len(a.data), 8)
         \o a.data \o zeros(MAX_PERMITTED_DATA_INCREASE)
         \o zeros(align_padding(Len(a.data) + MAX_PERMITTED_DATA_INCREASE,
                                BPF_ALIGN_OF_U128))
         \o zeros(8)

RECURSIVE HostRecords(_)
HostRecords(accounts) ==
    IF accounts = << >> THEN << >>
    ELSE HostRecord(Head(accounts)) \o HostRecords(Tail(accounts))

\* The input buffer: the account count, the records, the instruction data
\* with its length, and the program id.
HostInput(accounts, instruction_data, program_id) ==
    to_le_bytes(Len(accounts), 8) \o HostRecords(accounts)
    \o to_le_bytes(Len(instruction_data), 8) \o instruction_data
    \o as_ref(program_id)

\* The bytes of `input` from offset lo up to offset hi (0-based, hi excluded).
bytes(input, lo, hi) == SubSeq(input, lo + 1, hi)

RECURSIVE from_le_bytes(_)
from_le_bytes(b) == IF b = << >> THEN 0 ELSE Head(b) + 256 * from_le_bytes(Tail(b))

\* *(input.add(offset) as *const u64)
read_u64(input, offset) == from_le_bytes(bytes(input, offset, offset + 8))

\* The AccountView over the record at `offset`.
AccountViewAt(input, offset) ==
    LET length == read_u64(input, offset + 8 + 2 * ADDRESS_BYTES + 8)
        data == offset + 8 + 2 * ADDRESS_BYTES + 16
    IN [raw |-> offset,
        address |-> bytes(input, offset + 8, offset + 8 + ADDRESS_BYTES),
        owner |-> bytes(input, offset + 8 + ADDRESS_BYTES, offset + 8 + 2 * ADDRESS_BYTES),
        lamports |-> read_u64(input, offset + 8 + 2 * ADDRESS_BYTES),
        data |-> bytes(input, data, data + length)]

\* The eager parser: one view per record that is not a duplicate, and for
\* a duplicate the view constructed for the record it names.
RECURSIVE deserialize_accounts(_, _, _, _)
deserialize_accounts(input, offset, to_process, accounts) ==
    IF to_process = 0 THEN [accounts |-> accounts, offset |-> offset]
    ELSE IF input[offset + 1] = NON_DUP_MARKER
    THEN LET view == AccountViewAt(input, offset)
             end == offset + 8 + 2 * ADDRESS_BYTES + 16 + Len(view.data)
                    + MAX_PERMITTED_DATA_INCREASE
         IN deserialize_accounts(input,
                end + align_padding(end, BPF_ALIGN_OF_U128) + 8,
                to_process - 1, Append(accounts, view))
    ELSE deserialize_accounts(input, offset + 8, to_process - 1,
                              Append(accounts, accounts[input[offset + 1] + 1]))

deserialize(input) ==
    LET parsed == deserialize_accounts(input, 8, read_u64(input, 0), << >>)
        length == read_u64(input, parsed.offset)
        data == parsed.offset + 8
    IN [parsed |-> TRUE,
        program_id |-> bytes(input, data + length, data + length + ADDRESS_BYTES),
        accounts |-> parsed.accounts,
        instruction_data |-> bytes(input, data, data + length)]

\* InstructionContext::new: the cursor after the account count.
InstructionContext_new(input) == [buffer |-> 8, remaining |-> read_u64(input, 0)]

NoView == [raw |-> 0, address |-> << >>, owner |-> << >>, lamports |-> 0, data |-> << >>]
MaybeAccount_Account(view) == [kind |-> "Account", view |-> view, index |-> NON_DUP_MARKER]
MaybeAccount_Duplicated(index) == [kind |-> "Duplicated", view |-> NoView, index |-> index]
NoAccount == [kind |-> "None", view |-> NoView, index |-> NON_DUP_MARKER]

\* next_account reading the balance as a single byte.
next_account_narrow_lamports(input, context) ==
    IF context.remaining = 0
    THEN [result |-> "NotEnoughAccountKeys", account |-> NoAccount, context |-> context]
    ELSE IF input[context.buffer + 1] = NON_DUP_MARKER
    THEN LET view == AccountViewAt(input, context.buffer)
             skip == 8 + 2 * ADDRESS_BYTES + 16 + Len(view.data)
                     + MAX_PERMITTED_DATA_INCREASE
             next == context.buffer + skip
         IN [result |-> "Ok",
             account |-> MaybeAccount_Account(
                 [view EXCEPT !.lamports = input[context.buffer + 8 + 2 * ADDRESS_BYTES + 1]]),
             context |-> [buffer |-> next + align_padding(next, BPF_ALIGN_OF_U128) + 8,
                          remaining |-> context.remaining - 1]]
    ELSE [result |-> "Ok",
          account |-> MaybeAccount_Duplicated(input[context.buffer + 1]),
          context |-> [buffer |-> context.buffer + 8,
                       remaining |-> context.remaining - 1]]

\* next_account reading a record whatever the number of accounts left.
next_account_unchecked(input, context) ==
    IF input[context.buffer + 1] = NON_DUP_MARKER
    THEN LET view == AccountViewAt(input, context.buffer)
             skip == 8 + 2 * ADDRESS_BYTES + 16 + Len(view.data)
                     + MAX_PERMITTED_DATA_INCREASE
             next == context.buffer + skip
         IN [result |-> "Ok", account |-> MaybeAccount_Account(view),
             context |-> [buffer |-> next + align_padding(next, BPF_ALIGN_OF_U128) + 8,
                          remaining |-> IF context.remaining = 0 THEN 0
                                        ELSE context.remaining - 1]]
    ELSE [result |-> "Ok",
          account |-> MaybeAccount_Duplicated(input[context.buffer + 1]),
          context |-> [buffer |-> context.buffer + 8,
                       remaining |-> IF context.remaining = 0 THEN 0
                                     ELSE context.remaining - 1]]

\* InstructionContext::next_account: an error once no account is left,
\* else the account at the cursor, the cursor moved to the next record.
next_account(input, context) ==
    IF context.remaining = 0
    THEN [result |-> "NotEnoughAccountKeys", account |-> NoAccount, context |-> context]
    ELSE IF input[context.buffer + 1] = NON_DUP_MARKER
    THEN LET view == AccountViewAt(input, context.buffer)
             skip == 8 + 2 * ADDRESS_BYTES + 16 + Len(view.data)
                     + MAX_PERMITTED_DATA_INCREASE
             next == context.buffer + skip
         IN [result |-> "Ok", account |-> MaybeAccount_Account(view),
             context |-> [buffer |-> next + align_padding(next, BPF_ALIGN_OF_U128) + 8,
                          remaining |-> context.remaining - 1]]
    ELSE [result |-> "Ok",
          account |-> MaybeAccount_Duplicated(input[context.buffer + 1]),
          context |-> [buffer |-> context.buffer + 8,
                       remaining |-> context.remaining - 1]]

\* InstructionContext::instruction_data: available once every account has
\* been parsed.
instruction_data(input, context) ==
    IF context.remaining > 0
    THEN [result |-> "InvalidInstructionData", value |-> << >>]
    ELSE LET length == read_u64(input, context.buffer)
         IN [result |-> "Ok",
             value |-> bytes(input, context.buffer + 8, context.buffer + 8 + length)]

\* InstructionContext::program_id: the address after the instruction data.
program_id(input, context) ==
    IF context.remaining > 0
    THEN [result |-> "InvalidInstructionData", value |-> << >>]
    ELSE LET length == read_u64(input, context.buffer)
             at == context.buffer + 8 + length
         IN [result |-> "Ok", value |-> bytes(input, at, at + ADDRESS_BYTES)]

NotParsed == [result |-> "none", value |-> << >>]
NoLazyCall == [op |-> "none", result |-> "none", before |-> [buffer |-> 0, remaining |-> 0]]

InitEntry ==
    /\ account = EntryAccount(0, 1, "owner_a", [i \in MemIdx |-> GuardByte])
    /\ last = NoCall
    /\ prev = NoCall
    /\ pc = "idle"
    /\ call = [space |-> 0, owner |-> "system", lamports |-> 0, entry_lamports |-> 0]
    /\ ret = "none"
    /\ cpi_log = <<>>
    /\ invocation = NoInvocation
    /\ payer_lamports = 0
    /\ \E accounts \in HostAccountLists, data \in InstructionDatas :
        LET input == HostInput(accounts, data, "system_program")
        IN entry = [host |-> [accounts |-> accounts, instruction_data |-> data,
                              program_id |-> "system_program"],
                    input |-> input,
                    eager |-> [parsed |-> FALSE],
                    context |-> InstructionContext_new(input),
                    returned |-> << >>,
                    lazy_data |-> NotParsed,
                    lazy_program_id |-> NotParsed,
                    lazy_call |-> NoLazyCall]

\* entrypoint!: the whole input is parsed before the handler runs.
Entrypoint ==
    /\ entry # NoEntry
    /\ ~entry.eager.parsed
    /\ entry' = [entry EXCEPT !.eager = deserialize(entry.input)]
    /\ UNCHANGED programVars

\* context.next_account()
NextAccount ==
    /\ entry # NoEntry
    /\ LET out == next_account(entry.input, entry.context)
       IN entry' = [entry EXCEPT
                      !.context = out.context,
                      !.returned = IF out.result = "Ok" THEN Append(@, out.account) ELSE @,
                      !.lazy_call = [op |-> "next_account", result |-> out.result,
                                     before |-> entry.context]]
    /\ UNCHANGED programVars

\* context.instruction_data()
InstructionData ==
    /\ entry # NoEntry
    /\ LET out == instruction_data(entry.input, entry.context)
       IN entry' = [entry EXCEPT
                      !.lazy_data = IF out.result = "Ok" THEN out ELSE @,
                      !.lazy_call = [op |-> "instruction_data", result |-> out.result,
                                     before |-> entry.context]]
    /\ UNCHANGED programVars

\* context.program_id()
ProgramId ==
    /\ entry # NoEntry
    /\ LET out == program_id(entry.input, entry.context)
       IN entry' = [entry EXCEPT
                      !.lazy_program_id = IF out.result = "Ok" THEN out ELSE @,
                      !.lazy_call = [op |-> "program_id", result |-> out.result,
                                     before |-> entry.context]]
    /\ UNCHANGED programVars

NextEntry == Entrypoint \/ NextAccount \/ InstructionData \/ ProgramId

SpecEntry == InitEntry /\ [][NextEntry]_vars

\* The fields two parsers are compared on.
ViewFields(view) ==
    [address |-> view.address, owner |-> view.owner, lamports |-> view.lamports,
     data |-> view.data]

\* The account the i-th call of next_account stands for: a duplicate is the
\* account returned by the call it names.
LazyAccount(returned, i) ==
    IF returned[i].kind = "Account" THEN returned[i].view
    ELSE returned[returned[i].index + 1].view

\* C18: once the lazy cursor has been driven through all accounts, its
\* accounts are, one by one and in order, the accounts of the eager parser
\* of the same input in address, owner, lamports and data (a duplicate
\* standing for the account it names), and the instruction data and the
\* program id it parses are those of the eager parser.
C18_EagerLazyAgree ==
    (entry.eager.parsed /\ entry.context.remaining = 0) =>
        /\ Len(entry.returned) = Len(entry.eager.accounts)
        /\ \A i \in 1 .. Len(entry.returned) :
               ViewFields(LazyAccount(entry.returned, i))
                   = ViewFields(entry.eager.accounts[i])
        /\ entry.lazy_data.result = "Ok" =>
               entry.lazy_data.value = entry.eager.instruction_data
        /\ entry.lazy_program_id.result = "Ok" =>
               entry.lazy_program_id.value = entry.eager.program_id

\* Both parsers went through an input of three accounts, one of them a
\* duplicate, and the lazy one parsed the instruction data and program id.
C18_Witness ==
    /\ entry.eager.parsed
    /\ entry.context.remaining = 0
    /\ Len(entry.returned) = 3
    /\ \E i \in 1 .. 3 : entry.returned[i].kind = "Duplicated"
    /\ \E i \in 1 .. 3 : entry.returned[i].view.lamports > 255
    /\ entry.lazy_data.result = "Ok"
    /\ entry.lazy_data.value # << >>
    /\ entry.lazy_program_id.result = "Ok"

\* The offset of the end of the account section of the input.
AccountSectionEnd == 8 + Len(HostRecords(entry.host.accounts))

\* What next_account returns for the account `a` of the instruction.
Returns(a, returned) ==
    IF a.dup = NON_DUP_MARKER
    THEN /\ returned.kind = "Account"
         /\ ViewFields(returned.view)
              = [address |-> as_ref(a.address), owner |-> as_ref(a.owner),
                 lamports |-> a.lamports, data |-> a.data]
    ELSE /\ returned.kind = "Duplicated"
         /\ returned.index = a.dup

\* C19: over an input of k accounts, remaining() is k less the number of
\* successful calls of next_account, the i-th of which returned the i-th
\* account of the input; a call with accounts remaining succeeds and takes
\* exactly one off remaining(), and a call at remaining() = 0 fails and
\* leaves the cursor where it was, never beyond the account section.
C19_LazyCursor ==
    LET k == Len(entry.host.accounts)
        c == entry.lazy_call
    IN /\ entry.context.remaining + Len(entry.returned) = k
       /\ \A i \in 1 .. Len(entry.returned) :
              Returns(entry.host.accounts[i], entry.returned[i])
       /\ entry.context.buffer <= AccountSectionEnd
       /\ c.op = "none" => entry.context.remaining = k
       /\ c.op = "next_account" =>
              IF c.before.remaining = 0
              THEN c.result # "Ok" /\ entry.context = c.before
              ELSE /\ c.result = "Ok"
                   /\ entry.context.remaining = c.before.remaining - 1
                   /\ entry.context.buffer > c.before.buffer

\* After two successful calls over an input of two accounts, the second a
\* duplicate, a third call failed.
C19_Witness ==
    /\ Len(entry.host.accounts) = 2
    /\ Len(entry.returned) = 2
    /\ entry.returned[2].kind = "Duplicated"
    /\ entry.lazy_call.op = "next_account"
    /\ entry.lazy_call.before.remaining = 0
    /\ entry.lazy_call.result = "NotEnoughAccountKeys"

(***************************************************************************)
(* Borrows and lamports in create_account_with_minimum_balance_signed      *)
(* (checked under SpecCreate).                                             *)
(***************************************************************************)
\* The helper was called while the data of the target was borrowed; the
\* borrow is held for the whole call.
CalledWhileBorrowed == pc # "idle" /\ account.borrow_state # NOT_BORROWED

\* C21 as stated: whenever a borrow of the target is outstanding at call
\* time, the helper does not resize, leaves the data length alone, and the
\* error it returns is the error of a CPI it issued.
C21_AsStated ==
    CalledWhileBorrowed =>
        /\ pc # "resize"
        /\ ~Resized
        /\ account.data_len = account.padding
        /\ Returned =>
              /\ ret # "Ok"
              /\ cpi_log # << >>
              /\ ret = cpi_log[Len(cpi_log)].result

\* C21: resize_unchecked is only reached, and only ever ran, with no shared
\* or exclusive borrow of the target outstanding; a helper called while the
\* target is borrowed never resizes and leaves the data length alone, and it
\* returns either the error of the rent computation, with no CPI issued, or
\* the borrow error of the first CPI it issued.
C21_ResizeOnlyUnborrowed ==
    /\ pc = "resize" => account.borrow_state = NOT_BORROWED
    /\ Resized => last.pre.borrow_state = NOT_BORROWED
    /\ CalledWhileBorrowed =>
          /\ ~Resized
          /\ account.data_len = account.padding
          /\ Returned =>
                \/ ret = "RentUnavailable" /\ cpi_log = << >>
                \/ /\ Len(cpi_log) = 1
                   /\ cpi_log[1].result = "AccountBorrowFailed"
                   /\ ret = "AccountBorrowFailed"

\* A funded target was shared-borrowed when the helper was called for a
\* different length: the Assign, the first CPI, returned the borrow error.
C21_Witness ==
    /\ CalledWhileBorrowed
    /\ account.borrow_state.shared > 0
    /\ Returned
    /\ Len(cpi_log) = 1
    /\ cpi_log[1].ix = "Assign"
    /\ ret = "AccountBorrowFailed"
    /\ call.space # account.data_len
    /\ call.space <= account.padding + MAX_PERMITTED_DATA_INCREASE

\* The Transfer CPIs of the call.
Transfers == { i \in 1 .. Len(cpi_log) : cpi_log[i].ix = "Transfer" }

\* C22: on the existing-account path a Transfer is issued if and only if the
\* lamports of the target are below the rent-exempt minimum for `space`; it
\* is the first CPI and the only Transfer, from the payer to the target, of
\* exactly minimum - lamports, a positive amount no larger than the minimum;
\* once the host has honoured it the target holds exactly the minimum.
C22_TransferShortfall ==
    (MinimumKnown /\ call.entry_lamports > 0) =>
        /\ Transfers # {} => call.entry_lamports < call.lamports
        /\ (call.entry_lamports < call.lamports /\ pc # "branch") => 1 \in Transfers
        /\ \A i \in Transfers :
              /\ i = 1
              /\ cpi_log[i].from = "payer"
              /\ cpi_log[i].to = "acct"
              /\ cpi_log[i].lamports = call.lamports - call.entry_lamports
              /\ cpi_log[i].lamports > 0
              /\ cpi_log[i].lamports <= Shortfall
              /\ cpi_log[i].result = "Ok" => account.lamports = call.lamports
              /\ cpi_log[i].result # "Ok" => account.lamports = call.entry_lamports

\* A target short of the minimum received the shortfall and the call went
\* on to succeed.
C22_Witness ==
    /\ MinimumKnown /\ Returned
    /\ ret = "Ok"
    /\ call.entry_lamports > 0
    /\ Transfers = {1}
    /\ cpi_log[1].result = "Ok"
    /\ cpi_log[1].lamports = call.lamports - call.entry_lamports
    /\ cpi_log[1].lamports > 0
    /\ account.lamports = call.lamports

(***************************************************************************)
(* Properties of the slots and bytes the builders hand over (checked under *)
(* SpecBuild).                                                             *)
(***************************************************************************)
\* A builder was called and handed an instruction to the invocation layer.
HandedOver == invocation # NoInvocation /\ invocation.handed

C24_PayloadWritten ==
    HandedOver =>
        /\ AllWritten(invocation.data)
        /\ Len(invocation.data) >= 2 =>
              invocation.data[1].written /\ invocation.data[2].written

C26_WithdrawFromAccounts ==
    invocation.builder = "WithdrawWithheldTokensFromAccounts" =>
        LET M == Len(invocation.self.signers)
            N == Len(invocation.self.sources)
            accounts == Values(invocation.accounts)
            views == Values(invocation.views)
        IN IF M > MAX_MULTISIG_SIGNERS \/ 3 + M + N > MAX_STATIC_CPI_ACCOUNTS
           THEN /\ invocation.result = "InvalidArgument"
                /\ ~invocation.handed
                /\ ~invocation.issued
           ELSE /\ invocation.handed
                /\ invocation.issued
                /\ Len(accounts) = 3 + M + N
                /\ Len(views) = 3 + M + N
                /\ AllWritten(invocation.accounts)
                /\ AllWritten(invocation.views)
                /\ \A i \in 1 .. M :
                      /\ accounts[3 + i] = readonly_signer(invocation.self.signers[i])
                      /\ views[3 + i] = invocation.self.signers[i]
                /\ \A j \in 1 .. N :
                      /\ accounts[3 + M + j].address = invocation.self.sources[j]
                      /\ views[3 + M + j] = invocation.self.sources[j]
                /\ Len(invocation.data) = 3
                /\ Values(invocation.data)[3] = N

\* A call that exactly fills the arrays: as many multisig signers as allowed
\* and a source after them.
C26_Witness ==
    /\ invocation.builder = "WithdrawWithheldTokensFromAccounts"
    /\ Len(invocation.self.signers) = MAX_MULTISIG_SIGNERS
    /\ Len(invocation.self.sources) >= 1
    /\ Len(invocation.accounts) = MAX_STATIC_CPI_ACCOUNTS
    /\ invocation.issued
    /\ invocation.result = "Ok"

\* C27: HarvestWithheldTokensToMint with N sources returns InvalidArgument,
\* handing nothing over and issuing no CPI, when 1 + N exceeds
\* MAX_STATIC_CPI_ACCOUNTS; otherwise it hands over exactly 1 + N accounts,
\* the mint and then the sources in list order, all writable and none a
\* signer, with the payload [TransferFee discriminator, 4].
C27_Harvest ==
    invocation.builder = "HarvestWithheldTokensToMint" =>
        LET sources == invocation.self.sources
            N == Len(sources)
        IN IF 1 + N > MAX_STATIC_CPI_ACCOUNTS
           THEN /\ invocation.result = "InvalidArgument"
                /\ ~invocation.handed
                /\ ~invocation.issued
           ELSE /\ invocation.handed
                /\ invocation.issued
                /\ AllWritten(invocation.accounts)
                /\ AllWritten(invocation.views)
                /\ Values(invocation.accounts) =
                      <<InstructionAccount(invocation.self.mint, TRUE, FALSE)>>
                      \o [i \in 1 .. N |-> InstructionAccount(sources[i], TRUE, FALSE)]
                /\ Values(invocation.views) = <<invocation.self.mint>> \o sources
                /\ AllWritten(invocation.data)
                /\ Values(invocation.data) = <<ExtensionDiscriminator("TransferFee"), 4>>

\* A harvest whose mint and sources exactly fill the arrays.
C27_Witness ==
    /\ invocation.builder = "HarvestWithheldTokensToMint"
    /\ Len(invocation.self.sources) = MAX_STATIC_CPI_ACCOUNTS - 1
    /\ Len(invocation.accounts) = MAX_STATIC_CPI_ACCOUNTS
    /\ invocation.issued
    /\ invocation.result = "Ok"

\* C28: Reallocate never aborts the program: for every length k of the
\* extensions list it returns an error or hands over the payload
\* <<29, code_1, .., code_k>> of exactly 1 + k bytes, and a list that does
\* not fit the payload buffer is answered with InvalidArgument.
C28_ReallocateNeverAborts ==
    invocation.builder = "Reallocate" =>
        LET extensions == invocation.self.extensions
            k == Len(extensions)
        IN /\ invocation.result # "Panic"
           /\ invocation.handed =>
                 /\ Len(invocation.data) = 1 + k
                 /\ AllWritten(invocation.data)
                 /\ Values(invocation.data) =
                       <<29>> \o [i \in 1 .. k |-> ExtensionDiscriminator(extensions[i])]
           /\ 1 + k > REALLOCATE_DATA_CAPACITY =>
                 /\ invocation.result = "InvalidArgument"
                 /\ ~invocation.issued

\* C29: the payload TransferCheckedWithFee hands over is always 19 written
\* bytes: the TransferFee extension discriminator, the instruction
\* discriminator 1, amount as 8 little-endian bytes, the decimals byte and
\* fee as 8 little-endian bytes, in that order.
C29_TransferPayload ==
    (invocation.builder = "TransferCheckedWithFee" /\ invocation.handed) =>
        LET data == Values(invocation.data)
        IN /\ Len(data) = 19
           /\ AllWritten(invocation.data)
           /\ data = <<ExtensionDiscriminator("TransferFee"), 1>>
                     \o to_le_bytes(invocation.self.amount, 8)
                     \o <<invocation.self.decimals>>
                     \o to_le_bytes(invocation.self.fee, 8)
           /\ data[3] = invocation.self.amount % 256
           /\ data[4] = (invocation.self.amount \div 256) % 256
           /\ data[11] = invocation.self.decimals
           /\ data[12] = invocation.self.fee % 256
           /\ data[13] = (invocation.self.fee \div 256) % 256

\* A transfer whose amount takes two bytes, with decimals and no fee.
C29_Witness ==
    /\ invocation.builder = "TransferCheckedWithFee"
    /\ invocation.handed
    /\ invocation.issued
    /\ invocation.self.amount > 255
    /\ invocation.self.decimals > 0
    /\ invocation.self.fee = 0

\* C30: the payload handed over by the pointer and hook builders has a fixed
\* length, 66 bytes for group_member_pointer::Initialize and
\* InitializeTransferHook and 34 bytes for the three updates, whatever
\* optional addresses are supplied; every byte of it is written; the first
\* two bytes are the discriminators; and each optional address occupies its
\* own 32 bytes, as the address bytes when present and as zeros when absent.
C30_OptionalAddressPayload ==
    LET encoded(address) == IF address # "None" THEN as_ref(address) ELSE zeros(32)
        data == Values(invocation.data)
        self == invocation.self
        two(extension, first, second) ==
            /\ Len(data) = 66
            /\ AllWritten(invocation.data)
            /\ SubSeq(data, 1, 2) = <<ExtensionDiscriminator(extension), 0>>
            /\ SubSeq(data, 3, 34) = encoded(first)
            /\ SubSeq(data, 35, 66) = encoded(second)
        one(extension, address) ==
            /\ Len(data) = 34
            /\ AllWritten(invocation.data)
            /\ SubSeq(data, 1, 2) = <<ExtensionDiscriminator(extension), 1>>
            /\ SubSeq(data, 3, 34) = encoded(address)
    IN HandedOver =>
        /\ invocation.builder = "group_member_pointer::Initialize" =>
               two("GroupMemberPointer", self.authority, self.member_address)
        /\ invocation.builder = "InitializeTransferHook" =>
               two("TransferHook", self.authority, self.program_id)
        /\ invocation.builder = "group_member_pointer::Update" =>
               one("GroupMemberPointer", self.member_address)
        /\ invocation.builder = "metadata_pointer::Update" =>
               one("MetadataPointer", self.metadata_address)
        /\ invocation.builder = "UpdateTransferHook" =>
               one("TransferHook", self.transfer_hook_program)

\* An initializer called with its first address present and its second absent.
C30_Witness ==
    /\ HandedOver
    /\ invocation.builder = "InitializeTransferHook"
    /\ invocation.issued
    /\ invocation.self.authority = "address_a"
    /\ invocation.self.program_id = "None"
    /\ Len(invocation.data) = 66

====
